---------------------------- MODULE Spec2Model ----------------------------
(***************************************************************************)
(* Model of the speech pipeline of Ai-Learning-Lab:                        *)
(*   - the Piper voice cache          (backend/piper_utils/voice_manager)  *)
(*   - the signal converter and FX    (backend/piper_utils/character_fx)   *)
(*   - the Piper streaming endpoint   (backend/app/main.py, /tts/stream)   *)
(*   - the playback fallback chain    (tts/tts_manager.py)                 *)
(*   - concurrent get_voice calls     (voice_manager, SpecConc)            *)
(*   - the pydub fallback player      (tts/optimized_audio_player.py)      *)
(*   - the collect-and-play player    (tts/optimized_audio_player.py)      *)
(*   - the prosody form fields        (backend/app/main.py, /tts/stream)   *)
(*   - the FX override form field     (main.py, character_fx.py)           *)
(*   - the chat stream endpoint       (backend/app/main.py, /chat/stream)  *)
(*   - the secret store               (backend/services/secrets.py)        *)
(*   - the per-request effect chain   (main.py, character_fx.py)           *)
(*   - the MP3 chunk decoders         (tts/mp3_decoder.py)                 *)
(* Each subsystem has its own specification (SpecVoice, SpecFx,            *)
(* SpecStream, SpecSpeak, SpecConc, SpecFallback, SpecCollect,             *)
(* SpecProsody, SpecOverrides, SpecChat, SpecSecrets, SpecChain,           *)
(* SpecDecoder); the variables of the other subsystems stay at their       *)
(* initial values.                                                         *)
(***************************************************************************)
EXTENDS Integers, Sequences, FiniteSets, TLC

VARIABLES
    \* voice_manager.py
    loaded,        \* _loaded: the OrderedDict's keys, oldest first
    calls          \* log of get_voice calls: [key, kind], kind in hit/miss/raise

VARIABLES
    \* tts_manager.py, one TTSManager
    player_type,   \* self.player_type
    is_streaming,  \* self.is_streaming
    sp_pc,         \* position of the innermost speak frame: idle/try/except/unwind
    sp_depth,      \* number of speak frames on the stack
    sp_start,      \* player_type when the caller's speak call began
    sp_attempts,   \* the try blocks run by the current caller's call, in order
    sp_log,        \* the lines printed by the current caller's call
    sp_result,     \* how the last caller's call ended: none/returned/raised
    sp_calls,      \* number of finished caller's calls
    sp_init,       \* the player_type given to __init__
    sp_seqs        \* the generators tts_client.stream returned to the current
                   \* caller's call: the number of chunks taken from each

VARIABLES
    \* character_fx.py, one call of a function
    fx_in,         \* the argument: [kind |-> "pcm" or "f32", v |-> block]
    fx_out         \* the call and its result: [op, preset, raw, val]

VARIABLES
    \* main.py, one POST /tts/stream request
    st_pc,         \* idle/import/voice/respond/header/stream/closed/aborted/
                   \* cancelled/done
    st_req,        \* the request and its environment
    st_status,     \* the HTTP status of the response (0: none yet)
    st_fail,       \* what failed: none/import/voice/upstream
    st_sr,         \* sr
    st_board,      \* board: the stages of the request's chain
    st_last_block, \* last_block: [some |-> FALSE] is None
    st_pulled,     \* blocks taken from voice.synthesize so far
    st_emitted,    \* what gen() has yielded, in order
    st_calls       \* the calls apply_fx_block(board, block, sr) of gen(), in order

VARIABLES
    \* voice_manager.py, get_voice called from the server's worker threads
    vc_loaded,     \* _loaded: the OrderedDict's items [key, v], oldest first
    vc_pc,         \* each thread's position in get_voice
    vc_key,        \* each thread's key
    vc_v,          \* each thread's v (0: not assigned)
    vc_loads,      \* the keys _load_piper_voice loaded; voice i is the i-th
    vc_rets,       \* the calls that ended: [t, key, v], v = 0 for a KeyError
    vc_held,       \* the voices a request that got them still uses
    vc_popped,     \* the keys popitem removed so far
    vc_started     \* number of get_voice calls begun

VARIABLES
    \* optimized_audio_player.py, FallbackAudioPlayer.play
    fb_pc,         \* idle/create/write/system/pydub/finally
    fb_plays,      \* number of play calls begun; call n writes temp file n
    fb_created,    \* the temp files created so far
    fb_files,      \* the temp files that exist
    fb_tried,      \* what each system player tried by this call did
    fb_pending,    \* the exception on its way out of the try block, if any
    fb_exits       \* how each call that ended left: returned/raised

VARIABLES
    \* optimized_audio_player.py, one StreamCollectPlayer.play call
    sc_src,        \* audio_chunks: the length in bytes of each chunk
    sc_i,          \* number of chunks the collector has taken
    sc_buf,        \* mp3_buffer: the chunks (by position) it holds
    sc_count,      \* chunk_count
    sc_queue,      \* collection_queue: messages [type, data], oldest first
    sc_event,      \* collection_complete.is_set()
    sc_ppc,        \* collector thread: iter/put_data/final/complete/error/finally/done
    sc_cpc,        \* _play_collected_data: while/empty/get/play/finally/done
    sc_cur,        \* the data message being decoded and played
    sc_pushed,     \* the data buffers put on the queue, in order
    sc_played,     \* the data buffers written to the output stream, in order
    sc_exit,       \* how the consumer's loop ended: none/complete/error/drained/raised
    sc_ret         \* how play ended: none/returned/raised

VARIABLES
    \* main.py, the prosody fields of one POST /tts/stream request
    pr_pc,         \* idle/request/parsed/configured/failed
    pr_form,       \* the form fields as sent: absent, or a string
    pr_params,     \* _params: the parameter names of SynthesisConfig
    pr_values,     \* _cfg_values
    pr_kwargs      \* _cfg_kwargs: the set of [k, v] passed to SynthesisConfig

VARIABLES
    \* main.py and character_fx.py, the FX chain of one POST /tts/stream request
    ov_pc,         \* idle/request/loaded/built/failed
    ov_preset,     \* preset
    ov_text,       \* fx_overrides: absent, or a text (a sequence of tokens)
    ov_over,       \* over: the override map
    ov_board,      \* board: the argument values of the stages, in order
    ov_status      \* 0: the request goes on; 500: an exception left the endpoint

VARIABLES
    \* main.py, POST /chat/stream, one request after another
    ch_pc,         \* idle/handler/respond/streaming
    ch_n,          \* number of requests begun; the current one is request ch_n
    ch_req,        \* the request: [user_id, message, system_prompt]
    ch_db,         \* the messages table: rows [user_id, role, content, n] in
                   \* the order they were committed; n is the request that wrote it
    ch_messages,   \* messages: what event_gen passes to the upstream
    ch_text,       \* response_text
    ch_log         \* per request: [status, sent, ending]; sent are the tokens
                   \* streamed to the client, ending is none/exhausted/raised/
                   \* cancelled

VARIABLES
    \* secrets.py, one database session after another
    se_db,         \* the api_secrets table: rows [name, value_enc], by id
    se_env,        \* the environment: [allow, vars]
    se_hist,       \* the calls made: [op, name, value]
    se_got         \* the last get_secret call: [name, result]

VARIABLES
    \* main.py and character_fx.py: the chains of two requests served at once
    cb_pedalboard, \* whether the pedalboard package is installed
    cb_heap,       \* the Pedalboard objects built so far: [stages, state, owner]
    cb_pc,         \* per request: idle/build/stream/done
    cb_preset,     \* per request: preset
    cb_board,      \* per request: board, an index of cb_heap (0: not built)
    cb_last,       \* per request: last_block
    cb_calls       \* per request: its calls board(block, sr): [board, block, pre, post]

VARIABLES
    \* mp3_decoder.py, one call of mp3_chunks_to_pcm or mp3_chunks_to_pcm_buffered
    md_fn,         \* which of the two generators runs
    md_src,        \* chunks: the length of each chunk of the input
    md_i,          \* chunks taken from the input so far
    md_buffer,     \* buffer: the chunks written to it, by their index in chunks
    md_tries,      \* the calls of AudioSegment.from_file: [buf, ok, final]
    md_acc,        \* accumulated_audio: None, or its length
    md_out,        \* the lengths of the audio yielded, in order
    md_pc,         \* idle/loop/done
    md_result      \* how the generator ended: none/ended/raised

voiceVars == <<loaded, calls>>
fxVars == <<fx_in, fx_out>>
streamVars == <<st_pc, st_req, st_status, st_fail, st_sr, st_board,
                st_last_block, st_pulled, st_emitted, st_calls>>
speakVars == <<player_type, is_streaming, sp_pc, sp_depth, sp_start,
               sp_attempts, sp_log, sp_result, sp_calls, sp_init, sp_seqs>>

concVars == <<vc_loaded, vc_pc, vc_key, vc_v, vc_loads, vc_rets, vc_held,
              vc_popped, vc_started>>

fallbackVars == <<fb_pc, fb_plays, fb_created, fb_files, fb_tried, fb_pending,
                  fb_exits>>

collectVars == <<sc_src, sc_i, sc_buf, sc_count, sc_queue, sc_event, sc_ppc,
                 sc_cpc, sc_cur, sc_pushed, sc_played, sc_exit, sc_ret>>

prosodyVars == <<pr_pc, pr_form, pr_params, pr_values, pr_kwargs>>

overrideVars == <<ov_pc, ov_preset, ov_text, ov_over, ov_board, ov_status>>

chatVars == <<ch_pc, ch_n, ch_req, ch_db, ch_messages, ch_text, ch_log>>

secretVars == <<se_db, se_env, se_hist, se_got>>

chainVars == <<cb_pedalboard, cb_heap, cb_pc, cb_preset, cb_board, cb_last, cb_calls>>

decoderVars == <<md_fn, md_src, md_i, md_buffer, md_tries, md_acc, md_out, md_pc, md_result>>

vars == <<voiceVars, speakVars, fxVars, streamVars, concVars, fallbackVars, collectVars, prosodyVars, overrideVars, chatVars, secretVars, chainVars, decoderVars>>

(***************************************************************************)
(* Bounds                                                                  *)
(***************************************************************************)
MaxCalls == 4
MaxSpeaks == 2
MaxBlockLen == 2
MaxBlocks == 3
MaxConcCalls == 4
MaxPlays == 2
MaxChunks == 3
MaxRequests == 2
MaxTokens == 2
MaxOps == 3
MaxChainBlocks == 2
MaxSeqChunks == 2
MaxDecoderChunks == 3

(***************************************************************************)
(* voice_manager.py                                                        *)
(***************************************************************************)
_MAX_LOADED == 2

\* The voice_key arguments: plain identifiers, and one path to an .onnx file
VoiceKeys ==
    { [name |-> n, onnx |-> FALSE] : n \in {"A", "B", "C"} }
        \cup { [name |-> "A", onnx |-> TRUE] }

\* key = Path(voice_key).stem for a path, else the identifier itself
KeyOf(voice_key) == voice_key.name

Keys(c) == { c[i] : i \in 1..Len(c) }

\* OrderedDict.move_to_end(key)
MoveToEnd(c, key) == Append(SelectSeq(c, LAMBDA k : k # key), key)

\* _loaded[key] = v : a new key goes last, an existing key keeps its place
SetItem(c, key) == IF key \in Keys(c) THEN c ELSE Append(c, key)

\* while len(_loaded) > _MAX_LOADED: _loaded.popitem(last=False)
RECURSIVE Evict(_)
EvictOffByOne(c) == IF Len(c) > _MAX_LOADED + 1 THEN Tail(c) ELSE c
Evict(c) == IF Len(c) > _MAX_LOADED THEN Evict(Tail(c)) ELSE c

\* the cache-hit branch of get_voice
HitNoTouch(c, key) == c
GetVoiceHit(c, key) == MoveToEnd(c, key)

\* the cache-miss branch of get_voice
GetVoiceMiss(c, key) == Evict(MoveToEnd(SetItem(c, key), key))

\* get_voice(voice_key) returning a voice
GetVoice(voice_key) ==
    /\ Len(calls) < MaxCalls
    /\ LET key == KeyOf(voice_key) IN
         IF key \in Keys(loaded)
         THEN /\ loaded' = GetVoiceHit(loaded, key)
              /\ calls' = Append(calls, [key |-> key, kind |-> "hit"])
         ELSE /\ loaded' = GetVoiceMiss(loaded, key)
              /\ calls' = Append(calls, [key |-> key, kind |-> "miss"])

\* get_voice(voice_key) raising: ensure_voice_local or _load_piper_voice fails
GetVoiceRaise(voice_key) ==
    /\ Len(calls) < MaxCalls
    /\ calls' = Append(calls, [key |-> KeyOf(voice_key), kind |-> "raise"])
    /\ UNCHANGED loaded

VoiceStart ==
    /\ loaded = << >>
    /\ calls = << >>

(***************************************************************************)
(* Sample values.  A float sample is an exact fraction [num, den] in       *)
(* lowest terms with den > 0; a 16-bit sample is an integer.               *)
(***************************************************************************)
Abs(n) == IF n < 0 THEN -n ELSE n

RECURSIVE GCD(_, _)
GCD(a, b) == IF b = 0 THEN a ELSE GCD(b, a % b)

Rat(n, d) ==
    LET g == GCD(Abs(n), Abs(d))
        sgn == IF d < 0 THEN -1 ELSE 1
    IN [num |-> sgn * (n \div g), den |-> sgn * (d \div g)]

RatLess(x, y) ==
    LET g == GCD(x.den, y.den)
    IN x.num * (y.den \div g) < y.num * (x.den \div g)
RatAbs(x) == [num |-> Abs(x.num), den |-> x.den]
RatMul(x, y) ==
    LET g1 == GCD(Abs(x.num), y.den)
        g2 == GCD(Abs(y.num), x.den)
    IN Rat((x.num \div g1) * (y.num \div g2), (x.den \div g2) * (y.den \div g1))
RatDiv(x, y) == RatMul(x, Rat(y.den, y.num))

Zero == Rat(0, 1)
One == Rat(1, 1)

\* rounding towards zero, as astype(np.int16) rounds a float
Trunc(x) ==
    IF x.num >= 0 THEN x.num \div x.den ELSE -((-x.num) \div x.den)

\* the low 16 bits as a signed integer
ToInt16(n) == ((n + 32768) % 65536) - 32768

\* 16-bit samples and float samples the inputs are drawn from
PcmSamples == {-32768, -32767, -16384, -1, 0, 1, 2, 16384, 32767}
FloatSamples ==
    { Rat(-2, 1), Rat(-1, 1), Rat(-1, 4), Zero, Rat(1, 32768), Rat(99, 100),
      One, Rat(3, 2) }
\* samples a chain of pedalboard stages may put out
BoardSamples == { Rat(-3, 2), Zero, Rat(99, 100), One, Rat(2, 1) }

BlocksOver(S) == UNION { [1..n -> S] : n \in 0..MaxBlockLen }

(***************************************************************************)
(* character_fx.py                                                         *)
(***************************************************************************)
\* np.frombuffer(pcm_bytes, dtype=np.int16).astype(np.float32) / 32768.0
pcm16_to_float32(pcm) == [i \in 1..Len(pcm) |-> Rat(pcm[i], 32768)]

\* np.clip(audio, -1.0, 1.0)
ClipNone(x) == x
Clip(x) ==
    IF RatLess(One, x) THEN One
    ELSE IF RatLess(x, Rat(-1, 1)) THEN Rat(-1, 1)
    ELSE x

\* (y * 32767.0).astype(np.int16)
float32_to_pcm16(audio) ==
    [i \in 1..Len(audio) |->
        ToInt16(Trunc(RatMul(Clip(audio[i]), Rat(32767, 1))))]

\* float(np.max(np.abs(out))) if out.size else 0.0
RECURSIVE MaxAbs(_)
MaxAbs(b) ==
    IF b = << >> THEN Zero
    ELSE LET m == MaxAbs(Tail(b))
             h == RatAbs(Head(b))
         IN IF RatLess(m, h) THEN h ELSE m

\* the limiter of apply_fx_block: if peak > 1.0: out = out / peak * 0.98
LimiterNoDivide(out) ==
    [i \in 1..Len(out) |-> RatMul(out[i], Rat(98, 100))]
Limiter(out) ==
    LET peak == MaxAbs(out) IN
    IF RatLess(One, peak)
    THEN [i \in 1..Len(out) |-> RatMul(RatDiv(out[i], peak), Rat(98, 100))]
    ELSE out

\* PRESET_BUILDERS and the build_*_preset functions: the stages of each chain
PRESET_BUILDERS ==
    [wizard |-> <<"Gain", "PitchShift", "LowpassFilter", "Reverb", "Compressor">>,
     robot  |-> <<"HighpassFilter", "LowpassFilter", "Delay", "Distortion",
                  "Compressor">>,
     fairy  |-> <<"Gain", "PitchShift", "Chorus", "HighpassFilter", "Reverb",
                  "Compressor">>,
     goblin |-> <<"PitchShift", "LowpassFilter", "Distortion", "Compressor",
                  "Reverb">>]

PresetNames == DOMAIN PRESET_BUILDERS \cup {"nonexistent-preset", ""}

\* build_board(preset, overrides)
BuildAlwaysWizard(preset) == PRESET_BUILDERS["wizard"]
build_board(preset) ==
    IF preset \in DOMAIN PRESET_BUILDERS THEN PRESET_BUILDERS[preset] ELSE << >>

\* board(block, sr): what the chain may return.  An empty chain, and the
\* stub chain used when pedalboard is not installed, return the block; the
\* stages of pedalboard are outside the repository, so a chain with stages
\* may return any block of that length, or raise.
BoardCall(board, block, pedalboard) ==
    IF board = << >> \/ ~pedalboard
    THEN { [raised |-> FALSE, out |-> block] }
    ELSE { [raised |-> FALSE, out |-> b] : b \in [1..Len(block) -> BoardSamples] }
            \cup { [raised |-> TRUE, out |-> << >>] }

\* try: out = board(block, sr)  except Exception: out = block
BoardOrBlock(block, r) == IF r.raised THEN block ELSE r.out

\* apply_fx_block once board(block, sr) has returned or raised (r)
apply_fx_block(block, r) == Limiter(BoardOrBlock(block, r))

\* pcm16_to_float32(pcm_bytes)
CallPcmToFloat ==
    /\ fx_in.kind = "pcm"
    /\ fx_out.op = "none"
    /\ fx_out' = [op |-> "pcm16_to_float32", preset |-> "", raw |-> << >>,
                  val |-> pcm16_to_float32(fx_in.v)]
    /\ UNCHANGED fx_in

\* float32_to_pcm16(pcm16_to_float32(pcm_bytes))
CallRoundTrip ==
    /\ fx_in.kind = "pcm"
    /\ fx_out.op = "none"
    /\ fx_out' = [op |-> "roundtrip", preset |-> "", raw |-> << >>,
                  val |-> float32_to_pcm16(pcm16_to_float32(fx_in.v))]
    /\ UNCHANGED fx_in

\* float32_to_pcm16(audio)
CallFloatToPcm ==
    /\ fx_in.kind = "f32"
    /\ fx_out.op = "none"
    /\ fx_out' = [op |-> "float32_to_pcm16", preset |-> "", raw |-> << >>,
                  val |-> float32_to_pcm16(fx_in.v)]
    /\ UNCHANGED fx_in

\* apply_fx_block(build_board(preset, {}), block, sr)
CallApplyFx ==
    /\ fx_in.kind = "f32"
    /\ fx_out.op = "none"
    /\ \E preset \in PresetNames, pedalboard \in BOOLEAN :
         \E r \in BoardCall(build_board(preset), fx_in.v, pedalboard) :
            fx_out' = [op |-> "apply_fx_block", preset |-> preset,
                       raw |-> BoardOrBlock(fx_in.v, r),
                       val |-> apply_fx_block(fx_in.v, r)]
    /\ UNCHANGED fx_in

NoCall == [op |-> "none", preset |-> "", raw |-> << >>, val |-> << >>]

\* the argument of the call is any block of 16-bit or of float samples
FxStart ==
    /\ fx_in \in [kind : {"pcm"}, v : BlocksOver(PcmSamples)]
                 \cup [kind : {"f32"}, v : BlocksOver(FloatSamples)]
    /\ fx_out = NoCall

FxIdle ==
    /\ fx_in = [kind |-> "pcm", v |-> << >>]
    /\ fx_out = NoCall

(***************************************************************************)
(* main.py: POST /tts/stream                                               *)
(***************************************************************************)
\* _wav_header(sample_rate): the 44 bytes the wave module writes for an
\* empty mono 16-bit file
_wav_header(sample_rate) ==
    [kind |-> "header", nbytes |-> 44, channels |-> 1, sampwidth |-> 2,
     framerate |-> sample_rate, pcm |-> << >>]

\* a block of 16-bit samples yielded by gen()
Frame(pcm) ==
    [kind |-> "frame", nbytes |-> 2 * Len(pcm), channels |-> 1, sampwidth |-> 2,
     framerate |-> 0, pcm |-> pcm]

\* the blocks voice.synthesize may yield, and what a chain may put out here
UpstreamBlocks == { <<16384>>, <<32767, -32768>> }
StreamPresets == {"robot", "nonexistent-preset"}
StreamCaches == { << >>, <<"A", "B">>, <<"B", "C">> }
SampleRates == {16000, 22050}

StreamBoardCall(board, block, pedalboard) ==
    { r \in BoardCall(board, block, pedalboard) :
        \A i \in 1..Len(r.out) : r.out[i] \in {Zero, Rat(2, 1)} }

\* last_block * 0
ZeroBlock(block) == [i \in 1..Len(block) |-> Zero]

None == [some |-> FALSE, v |-> << >>]
Some(v) == [some |-> TRUE, v |-> v]

NoRequest ==
    [voice_id |-> [name |-> "", onnx |-> FALSE], preset |-> "",
     piper |-> FALSE, pedalboard |-> FALSE]

\* a client posts the form; piper and pedalboard say which of the optional
\* packages are installed
Request ==
    /\ st_pc = "idle"
    /\ \E vk \in VoiceKeys, preset \in StreamPresets,
          piper \in BOOLEAN, pedalboard \in BOOLEAN :
         st_req' = [voice_id |-> vk, preset |-> preset, piper |-> piper,
                    pedalboard |-> pedalboard]
    /\ st_pc' = "import"
    /\ UNCHANGED <<st_status, st_fail, st_sr, st_board, st_last_block,
                   st_pulled, st_emitted, st_calls, voiceVars>>

\* the imports in the try block: character_fx imports with or without
\* pedalboard (its stubs), piper.voice only when piper is installed
Import ==
    /\ st_pc = "import"
    /\ IF st_req.piper
       THEN /\ st_pc' = "voice"
            /\ UNCHANGED <<st_status, st_fail>>
       ELSE /\ st_pc' = "done"
            /\ st_status' = 503
            /\ st_fail' = "import"
    /\ UNCHANGED <<st_req, st_sr, st_board, st_last_block, st_pulled,
                   st_emitted, st_calls, voiceVars>>

\* voice = get_voice(voice_id); sr = read_sample_rate_from_sidecar(...)
AcquireVoice ==
    /\ st_pc = "voice"
    /\ GetVoice(st_req.voice_id)
    /\ st_sr' \in SampleRates
    /\ st_pc' = "respond"
    /\ UNCHANGED <<st_req, st_status, st_fail, st_board, st_last_block,
                   st_pulled, st_emitted, st_calls>>

\* get_voice or ensure_voice_local raises: nothing catches it, and the
\* framework answers 500
AcquireVoiceRaise ==
    /\ st_pc = "voice"
    /\ GetVoiceRaise(st_req.voice_id)
    /\ st_pc' = "done"
    /\ st_status' = 500
    /\ st_fail' = "voice"
    /\ UNCHANGED <<st_req, st_sr, st_board, st_last_block, st_pulled,
                   st_emitted, st_calls>>

\* board = build_board(preset, over); ...; return StreamingResponse(gen())
Respond ==
    /\ st_pc = "respond"
    /\ st_board' = build_board(st_req.preset)
    /\ st_status' = 200
    /\ st_pc' = "header"
    /\ UNCHANGED <<st_req, st_fail, st_sr, st_last_block, st_pulled,
                   st_emitted, st_calls, voiceVars>>

\* gen(): yield _wav_header(sr); last_block = None
GenHeader ==
    /\ st_pc = "header"
    /\ st_emitted' = Append(st_emitted, _wav_header(st_sr))
    /\ st_last_block' = None
    /\ st_pc' = "stream"
    /\ UNCHANGED <<st_req, st_status, st_fail, st_sr, st_board, st_pulled,
                   st_calls, voiceVars>>

\* one turn of the for loop: the next chunk, converted, processed, yielded
GenBlock ==
    /\ st_pc = "stream"
    /\ st_pulled < MaxBlocks
    /\ \E pcm \in UpstreamBlocks :
         LET f32 == pcm16_to_float32(pcm) IN
         \E r \in StreamBoardCall(st_board, f32, st_req.pedalboard) :
            /\ st_last_block' = Some(f32)
            /\ st_calls' = Append(st_calls, [board |-> st_board, block |-> f32])
            /\ st_emitted' = Append(st_emitted,
                                    Frame(float32_to_pcm16(apply_fx_block(f32, r))))
    /\ st_pulled' = st_pulled + 1
    /\ UNCHANGED <<st_pc, st_req, st_status, st_fail, st_sr, st_board, voiceVars>>

\* the iterator is exhausted: the flush block if a block was seen, then
\* gen() returns
GenEndNoFlush ==
    /\ st_pc = "stream"
    /\ st_pc' = "closed"
    /\ UNCHANGED <<st_req, st_status, st_fail, st_sr, st_board, st_last_block,
                   st_pulled, st_emitted, st_calls, voiceVars>>
GenEndLastBlock ==
    /\ st_pc = "stream"
    /\ IF st_last_block.some
       THEN \E r \in StreamBoardCall(st_board, st_last_block.v, st_req.pedalboard) :
               /\ st_calls' = Append(st_calls, [board |-> st_board,
                                                block |-> st_last_block.v])
               /\ st_emitted' = Append(st_emitted,
                      Frame(float32_to_pcm16(apply_fx_block(st_last_block.v, r))))
       ELSE UNCHANGED <<st_emitted, st_calls>>
    /\ st_pc' = "closed"
    /\ UNCHANGED <<st_req, st_status, st_fail, st_sr, st_board, st_last_block,
                   st_pulled, voiceVars>>
GenEnd ==
    /\ st_pc = "stream"
    /\ IF st_last_block.some
       THEN LET zeros == ZeroBlock(st_last_block.v) IN
            \E r \in StreamBoardCall(st_board, zeros, st_req.pedalboard) :
               /\ st_calls' = Append(st_calls, [board |-> st_board, block |-> zeros])
               /\ st_emitted' = Append(st_emitted,
                                       Frame(float32_to_pcm16(apply_fx_block(zeros, r))))
       ELSE UNCHANGED <<st_emitted, st_calls>>
    /\ st_pc' = "closed"
    /\ UNCHANGED <<st_req, st_status, st_fail, st_sr, st_board, st_last_block,
                   st_pulled, voiceVars>>

\* voice.synthesize or the iterator raises: gen() ends with the exception
GenUpstreamRaiseFlush ==
    /\ st_pc = "stream"
    /\ IF st_last_block.some
       THEN LET zeros == ZeroBlock(st_last_block.v) IN
            \E r \in StreamBoardCall(st_board, zeros, st_req.pedalboard) :
               /\ st_calls' = Append(st_calls, [board |-> st_board, block |-> zeros])
               /\ st_emitted' = Append(st_emitted,
                                       Frame(float32_to_pcm16(apply_fx_block(zeros, r))))
       ELSE UNCHANGED <<st_emitted, st_calls>>
    /\ st_pc' = "aborted"
    /\ st_fail' = "upstream"
    /\ UNCHANGED <<st_req, st_status, st_sr, st_board, st_last_block,
                   st_pulled, voiceVars>>
GenUpstreamRaise ==
    /\ st_pc = "stream"
    /\ st_pc' = "aborted"
    /\ st_fail' = "upstream"
    /\ UNCHANGED <<st_req, st_status, st_sr, st_board, st_last_block,
                   st_pulled, st_emitted, st_calls, voiceVars>>

\* The client closes the connection while the response is being streamed: the
\* server stops iterating gen() and the generator is closed where it is
\* suspended, before its first statement or at a yield.  GeneratorExit is
\* raised there; gen() has no except or finally clause around its yields, so
\* none of its code runs.
GenCloseFlush ==
    /\ st_pc \in {"header", "stream"}
    /\ IF st_last_block.some
       THEN LET zeros == ZeroBlock(st_last_block.v) IN
            \E r \in StreamBoardCall(st_board, zeros, st_req.pedalboard) :
               /\ st_calls' = Append(st_calls, [board |-> st_board, block |-> zeros])
               /\ st_emitted' = Append(st_emitted,
                                       Frame(float32_to_pcm16(apply_fx_block(zeros, r))))
       ELSE UNCHANGED <<st_emitted, st_calls>>
    /\ st_pc' = "cancelled"
    /\ UNCHANGED <<st_req, st_status, st_fail, st_sr, st_board, st_last_block,
                   st_pulled, voiceVars>>
GenClose ==
    /\ st_pc \in {"header", "stream"}
    /\ st_pc' = "cancelled"
    /\ UNCHANGED <<st_req, st_status, st_fail, st_sr, st_board, st_last_block,
                   st_pulled, st_emitted, st_calls, voiceVars>>

StreamIdle ==
    /\ st_pc = "idle"
    /\ st_req = NoRequest
    /\ st_status = 0
    /\ st_fail = "none"
    /\ st_sr = 0
    /\ st_board = << >>
    /\ st_last_block = None
    /\ st_pulled = 0
    /\ st_emitted = << >>
    /\ st_calls = << >>

\* the cache as earlier requests left it
StreamStart ==
    /\ StreamIdle
    /\ loaded \in StreamCaches
    /\ calls = << >>

(***************************************************************************)
(* tts_manager.py                                                          *)
(***************************************************************************)
PlayerTypes ==
    {"optimized", "stream_collect", "fallback", "buffered", "simple", "original"}

\* TTSManager._create_player
_create_player(pt) ==
    CASE pt = "optimized"      -> "OptimizedAudioPlayer"
      [] pt = "stream_collect" -> "StreamCollectPlayer"
      [] pt = "fallback"       -> "FallbackAudioPlayer"
      [] pt = "buffered"       -> "BufferedAudioPlayer"
      [] pt = "simple"         -> "SimpleAudioPlayer"
      [] OTHER                 -> "StreamingAudioPlayer"

\* what the try block of speak hands to player.play
PlayInput(streaming, pt) ==
    IF streaming
    THEN IF pt \in {"optimized", "stream_collect", "fallback"}
         THEN "mp3_chunks"
         ELSE IF pt = "buffered" THEN "mp3_chunks_to_pcm_buffered"
                                 ELSE "mp3_chunks_to_pcm"
    ELSE "first_chunk"

\* the except handler's choice of the next player_type ("none": give up)
NextStrategySkip(pt) ==
    IF pt \in {"optimized", "fallback"} THEN "simple" ELSE "none"
NextStrategy(pt) ==
    IF pt = "optimized" THEN "fallback"
    ELSE IF pt = "fallback" THEN "simple"
    ELSE "none"

\* audio_chunks = self.tts_client.stream(text, voice_id, **kwargs): a new
\* generator, from which nothing has been taken
Stream(seqs) == Append(seqs, 0)

\* one run of the try block: seq is the generator it got from stream (0 when
\* stream raised), at the number of chunks taken from it before this run
Attempt(outcome, seq, at) ==
    [type |-> player_type, player |-> _create_player(player_type),
     input |-> PlayInput(is_streaming, player_type), outcome |-> outcome,
     seq |-> seq, at |-> at]

\* the chunks a run of the try block that does not raise takes: all of them
\* when streaming, the first one (next(audio_chunks)) when not
Taken(streaming) == IF streaming THEN MaxSeqChunks ELSE 1

\* a caller invokes manager.speak(text, voice_id)
Speak ==
    /\ sp_pc = "idle"
    /\ sp_calls < MaxSpeaks
    /\ sp_pc' = "try"
    /\ sp_depth' = 1
    /\ sp_start' = player_type
    /\ sp_attempts' = << >>
    /\ sp_seqs' = << >>
    /\ sp_log' = << >>
    /\ sp_result' = "none"
    /\ UNCHANGED <<player_type, is_streaming, sp_calls, sp_init>>

\* the try block runs to its end: stream, create the player, play
TryOk ==
    /\ sp_pc = "try"
    /\ LET seqs == Stream(sp_seqs)
           id == Len(seqs)
       IN /\ sp_attempts' = Append(sp_attempts, Attempt("ok", id, seqs[id]))
          /\ sp_seqs' = [seqs EXCEPT ![id] = Taken(is_streaming)]
    /\ sp_pc' = "unwind"
    /\ UNCHANGED <<player_type, is_streaming, sp_depth, sp_start, sp_log,
                   sp_result, sp_calls, sp_init>>

\* the try block raises an Exception, caught by the except clause: stream
\* raises, or what follows it raises after some chunks have been taken
TryRaise ==
    /\ sp_pc = "try"
    /\ \/ /\ sp_attempts' = Append(sp_attempts, Attempt("raise", 0, 0))
          /\ UNCHANGED sp_seqs
       \/ \E taken \in 0..Taken(is_streaming) :
            LET seqs == Stream(sp_seqs)
                id == Len(seqs)
            IN /\ sp_attempts' = Append(sp_attempts,
                                        Attempt("raise", id, seqs[id]))
               /\ sp_seqs' = [seqs EXCEPT ![id] = taken]
    /\ sp_log' = Append(sp_log, [msg |-> "Playback failed with", type |-> player_type])
    /\ sp_pc' = "except"
    /\ UNCHANGED <<player_type, is_streaming, sp_depth, sp_start, sp_result,
                   sp_calls, sp_init>>

\* the except handler: fall back and call speak again, or give up
Except ==
    /\ sp_pc = "except"
    /\ LET nxt == NextStrategy(player_type) IN
         IF nxt # "none"
         THEN /\ sp_log' = Append(sp_log, [msg |-> "Falling back to", type |-> nxt])
              /\ player_type' = nxt
              /\ sp_depth' = sp_depth + 1
              /\ sp_pc' = "try"
         ELSE /\ sp_log' = Append(sp_log, [msg |-> "All fallbacks exhausted",
                                           type |-> player_type])
              /\ sp_pc' = "unwind"
              /\ UNCHANGED <<player_type, sp_depth>>
    /\ UNCHANGED <<is_streaming, sp_start, sp_attempts, sp_result, sp_calls,
                   sp_init, sp_seqs>>

\* a speak frame returns None: to the handler that called it, or to the caller
ReturnReset ==
    /\ sp_pc = "unwind"
    /\ sp_depth' = sp_depth - 1
    /\ IF sp_depth = 1
       THEN /\ sp_pc' = "idle"
            /\ sp_result' = "returned"
            /\ sp_calls' = sp_calls + 1
            /\ player_type' = sp_init
       ELSE UNCHANGED <<sp_pc, sp_result, sp_calls, player_type>>
    /\ UNCHANGED <<is_streaming, sp_start, sp_attempts, sp_log, sp_init,
                   sp_seqs>>
Return ==
    /\ sp_pc = "unwind"
    /\ sp_depth' = sp_depth - 1
    /\ IF sp_depth = 1
       THEN /\ sp_pc' = "idle"
            /\ sp_result' = "returned"
            /\ sp_calls' = sp_calls + 1
       ELSE UNCHANGED <<sp_pc, sp_result, sp_calls>>
    /\ UNCHANGED <<player_type, is_streaming, sp_start, sp_attempts, sp_log,
                   sp_init, sp_seqs>>

\* TTSManager.__init__(tts_client, is_streaming, player_type)
SpeakStart ==
    /\ player_type \in PlayerTypes
    /\ is_streaming \in BOOLEAN
    /\ sp_pc = "idle"
    /\ sp_depth = 0
    /\ sp_start = "none"
    /\ sp_attempts = << >>
    /\ sp_log = << >>
    /\ sp_result = "none"
    /\ sp_calls = 0
    /\ sp_init = player_type
    /\ sp_seqs = << >>

\* no manager in use
SpeakIdle ==
    /\ player_type = "optimized"
    /\ is_streaming = TRUE
    /\ sp_pc = "idle"
    /\ sp_depth = 0
    /\ sp_start = "none"
    /\ sp_attempts = << >>
    /\ sp_log = << >>
    /\ sp_result = "none"
    /\ sp_calls = 0
    /\ sp_init = "optimized"
    /\ sp_seqs = << >>

(***************************************************************************)
(* voice_manager.py under concurrent requests.  POST /tts/stream is a      *)
(* plain def endpoint, so requests run get_voice on worker threads; each   *)
(* statement of get_voice is one step of its thread.                       *)
(***************************************************************************)
Threads == {1, 2}
ConcKeys == {"A", "B", "C"}

ItemKeys(c) == { c[i].key : i \in 1..Len(c) }
ItemValues(c) == { c[i].v : i \in 1..Len(c) }

\* _loaded[key]
GetItem(c, key) == (CHOOSE i \in 1..Len(c) : c[i].key = key)

\* _loaded.move_to_end(key)
MoveItemToEnd(c, key) ==
    Append(SelectSeq(c, LAMBDA e : e.key # key), c[GetItem(c, key)])

\* _loaded[key] = v : an existing key keeps its place and takes the new value
StoreItem(c, key, v) ==
    IF key \in ItemKeys(c)
    THEN [i \in 1..Len(c) |->
            IF c[i].key = key THEN [key |-> key, v |-> v] ELSE c[i]]
    ELSE Append(c, [key |-> key, v |-> v])

\* a call ends: it returns v, or raises KeyError (v = 0)
EndCall(t, v) ==
    /\ vc_rets' = Append(vc_rets, [t |-> t, key |-> vc_key[t], v |-> v])
    /\ vc_held' = IF v = 0 THEN vc_held ELSE vc_held \cup {v}
    /\ vc_pc' = [vc_pc EXCEPT ![t] = "idle"]
    /\ vc_v' = [vc_v EXCEPT ![t] = 0]

\* a request calls get_voice(key)
CallGetVoice(t, key) ==
    /\ vc_pc[t] = "idle"
    /\ vc_started < MaxConcCalls
    /\ vc_started' = vc_started + 1
    /\ vc_pc' = [vc_pc EXCEPT ![t] = "test"]
    /\ vc_key' = [vc_key EXCEPT ![t] = key]
    /\ UNCHANGED <<vc_loaded, vc_v, vc_loads, vc_rets, vc_held, vc_popped>>

\* if key in _loaded:
TestMembership(t) ==
    /\ vc_pc[t] = "test"
    /\ vc_pc' = [vc_pc EXCEPT ![t] =
          IF vc_key[t] \in ItemKeys(vc_loaded) THEN "hit_move" ELSE "load"]
    /\ UNCHANGED <<vc_loaded, vc_key, vc_v, vc_loads, vc_rets, vc_held,
                   vc_popped, vc_started>>

\* _loaded.move_to_end(key) of the hit branch; KeyError if the key has gone
HitMoveToEnd(t) ==
    /\ vc_pc[t] = "hit_move"
    /\ IF vc_key[t] \in ItemKeys(vc_loaded)
       THEN /\ vc_loaded' = MoveItemToEnd(vc_loaded, vc_key[t])
            /\ vc_pc' = [vc_pc EXCEPT ![t] = "hit_return"]
            /\ UNCHANGED <<vc_v, vc_rets, vc_held>>
       ELSE /\ EndCall(t, 0)
            /\ UNCHANGED vc_loaded
    /\ UNCHANGED <<vc_key, vc_loads, vc_popped, vc_started>>

\* return _loaded[key] ; KeyError if the key has gone
HitReturn(t) ==
    /\ vc_pc[t] = "hit_return"
    /\ IF vc_key[t] \in ItemKeys(vc_loaded)
       THEN EndCall(t, vc_loaded[GetItem(vc_loaded, vc_key[t])].v)
       ELSE EndCall(t, 0)
    /\ UNCHANGED <<vc_loaded, vc_key, vc_loads, vc_popped, vc_started>>

\* v = _load_piper_voice(path) : a new voice object
LoadVoice(t) ==
    /\ vc_pc[t] = "load"
    /\ vc_loads' = Append(vc_loads, vc_key[t])
    /\ vc_v' = [vc_v EXCEPT ![t] = Len(vc_loads) + 1]
    /\ vc_pc' = [vc_pc EXCEPT ![t] = "store"]
    /\ UNCHANGED <<vc_loaded, vc_key, vc_rets, vc_held, vc_popped, vc_started>>

\* _loaded[key] = v
Register(t) ==
    /\ vc_pc[t] = "store"
    /\ vc_loaded' = StoreItem(vc_loaded, vc_key[t], vc_v[t])
    /\ vc_pc' = [vc_pc EXCEPT ![t] = "move"]
    /\ UNCHANGED <<vc_key, vc_v, vc_loads, vc_rets, vc_held, vc_popped,
                   vc_started>>

\* _loaded.move_to_end(key) of the miss branch
MissMoveToEnd(t) ==
    /\ vc_pc[t] = "move"
    /\ IF vc_key[t] \in ItemKeys(vc_loaded)
       THEN /\ vc_loaded' = MoveItemToEnd(vc_loaded, vc_key[t])
            /\ vc_pc' = [vc_pc EXCEPT ![t] = "evict_test"]
            /\ UNCHANGED <<vc_v, vc_rets, vc_held>>
       ELSE /\ EndCall(t, 0)
            /\ UNCHANGED vc_loaded
    /\ UNCHANGED <<vc_key, vc_loads, vc_popped, vc_started>>

\* while len(_loaded) > _MAX_LOADED:
EvictTest(t) ==
    /\ vc_pc[t] = "evict_test"
    /\ vc_pc' = [vc_pc EXCEPT ![t] =
          IF Len(vc_loaded) > _MAX_LOADED THEN "evict_pop" ELSE "return"]
    /\ UNCHANGED <<vc_loaded, vc_key, vc_v, vc_loads, vc_rets, vc_held,
                   vc_popped, vc_started>>

\* _loaded.popitem(last=False) : the oldest item leaves, nothing else is done
EvictPop(t) ==
    /\ vc_pc[t] = "evict_pop"
    /\ vc_loaded # << >>
    /\ vc_loaded' = Tail(vc_loaded)
    /\ vc_popped' = vc_popped \cup {Head(vc_loaded).key}
    /\ vc_pc' = [vc_pc EXCEPT ![t] = "evict_test"]
    /\ UNCHANGED <<vc_key, vc_v, vc_loads, vc_rets, vc_held, vc_started>>

\* return v
MissReturn(t) ==
    /\ vc_pc[t] = "return"
    /\ EndCall(t, vc_v[t])
    /\ UNCHANGED <<vc_loaded, vc_key, vc_loads, vc_popped, vc_started>>

\* the request that held voice o ends: its reference goes away
RequestEnds(o) ==
    /\ o \in vc_held
    /\ vc_held' = vc_held \ {o}
    /\ UNCHANGED <<vc_loaded, vc_pc, vc_key, vc_v, vc_loads, vc_rets,
                   vc_popped, vc_started>>

ConcStart ==
    /\ vc_loaded = << >>
    /\ vc_pc = [t \in Threads |-> "idle"]
    /\ vc_key = [t \in Threads |-> "A"]
    /\ vc_v = [t \in Threads |-> 0]
    /\ vc_loads = << >>
    /\ vc_rets = << >>
    /\ vc_held = {}
    /\ vc_popped = {}
    /\ vc_started = 0

ConcIdle == ConcStart

(***************************************************************************)
(* optimized_audio_player.py: FallbackAudioPlayer.play                     *)
(***************************************************************************)
\* players = ['aplay', 'paplay', 'ffplay', 'mpv', 'mplayer']
SystemPlayers == <<"aplay", "paplay", "ffplay", "mpv", "mplayer">>

\* what one round of the loop in _try_system_play can do: shutil.which finds
\* nothing, subprocess.run succeeds, raises CalledProcessError, or raises
\* something else
PlayerOutcomes == {"absent", "played", "failed", "raised"}

FbExit(how) ==
    /\ fb_exits' = Append(fb_exits, how)
    /\ fb_pc' = "idle"

\* play(audio_stream): mp3_data = b''.join(audio_stream); an empty stream
\* returns before any file is made
FbPlay(empty) ==
    /\ fb_pc = "idle"
    /\ fb_plays < MaxPlays
    /\ fb_plays' = fb_plays + 1
    /\ fb_tried' = << >>
    /\ fb_pending' = FALSE
    /\ IF empty
       THEN fb_exits' = Append(fb_exits, "returned") /\ fb_pc' = "idle"
       ELSE fb_exits' = fb_exits /\ fb_pc' = "create"
    /\ UNCHANGED <<fb_created, fb_files>>

\* with tempfile.NamedTemporaryFile(suffix='.mp3', delete=False) as temp_file
FbCreateTemp ==
    /\ fb_pc = "create"
    /\ fb_created' = fb_created \cup {fb_plays}
    /\ fb_files' = fb_files \cup {fb_plays}
    /\ fb_pc' = "write"
    /\ UNCHANGED <<fb_plays, fb_tried, fb_pending, fb_exits>>

\* temp_file.write(mp3_data); temp_path = temp_file.name
FbWrite ==
    /\ fb_pc = "write"
    /\ fb_pc' = "system"
    /\ UNCHANGED <<fb_plays, fb_created, fb_files, fb_tried, fb_pending, fb_exits>>

\* temp_file.write raises (OSError): the with block closes the file, which
\* was made with delete=False, and the exception leaves play
FbWriteRaise ==
    /\ fb_pc = "write"
    /\ FbExit("raised")
    /\ UNCHANGED <<fb_plays, fb_created, fb_files, fb_tried, fb_pending>>

\* one round of the for loop of _try_system_play
FbSystemPlayer(outcome) ==
    /\ fb_pc = "system"
    /\ Len(fb_tried) < Len(SystemPlayers)
    /\ fb_tried' = Append(fb_tried, outcome)
    /\ fb_pc' = IF outcome \in {"played", "raised"} THEN "finally" ELSE "system"
    /\ fb_pending' = (outcome = "raised")
    /\ UNCHANGED <<fb_plays, fb_created, fb_files, fb_exits>>

\* _try_system_play returned False: self._pydub_play(temp_path), which
\* catches every Exception itself; interrupted: a BaseException passes
FbPydubPlay(interrupted) ==
    /\ fb_pc = "system"
    /\ Len(fb_tried) = Len(SystemPlayers)
    /\ fb_pc' = "finally"
    /\ fb_pending' = interrupted
    /\ UNCHANGED <<fb_plays, fb_created, fb_files, fb_tried, fb_exits>>

\* finally: try: os.unlink(temp_path) except OSError: pass
FbUnlink(oserror) ==
    /\ fb_pc = "finally"
    /\ fb_files' = IF oserror THEN fb_files ELSE fb_files \ {fb_plays}
    /\ FbExit(IF fb_pending THEN "raised" ELSE "returned")
    /\ UNCHANGED <<fb_plays, fb_created, fb_tried, fb_pending>>

FallbackStart ==
    /\ fb_pc = "idle"
    /\ fb_plays = 0
    /\ fb_created = {}
    /\ fb_files = {}
    /\ fb_tried = << >>
    /\ fb_pending = FALSE
    /\ fb_exits = << >>

FallbackIdle == FallbackStart

(***************************************************************************)
(* optimized_audio_player.py: StreamCollectPlayer, a collector thread and  *)
(* the playing thread around a queue.Queue and a threading.Event           *)
(***************************************************************************)
\* if mp3_buffer.tell() > 32768
Threshold == 32768

\* chunk lengths: an empty chunk, half the threshold, above the threshold
ChunkSizes == {0, 16384, 40000}

RECURSIVE SeqsUpTo(_, _)
SeqsUpTo(S, n) ==
    IF n = 0 THEN {<< >>}
    ELSE LET shorter == SeqsUpTo(S, n - 1) IN
         shorter \cup { Append(q, x) : q \in shorter, x \in S }

RECURSIVE Tell(_)
\* mp3_buffer.tell(): the bytes written to the buffer
Tell(buf) == IF buf = << >> THEN 0 ELSE sc_src[Head(buf)] + Tell(Tail(buf))

\* queue.Queue(): maxsize 0, no limit
QueueMaxSize == 0

\* put blocks only when maxsize > 0 items are queued
NotFull(q) == QueueMaxSize <= 0 \/ Len(q) < QueueMaxSize

\* collection_queue.put(msg)
Put(msg) ==
    /\ NotFull(sc_queue)
    /\ sc_queue' = Append(sc_queue, msg)

\* the item data_queue.get returns, and the queue it leaves
QueueGetLast(q) == [item |-> q[Len(q)], rest |-> SubSeq(q, 1, Len(q) - 1)]
QueueGet(q) == [item |-> Head(q), rest |-> Tail(q)]

\* for chunk in audio_chunks: a chunk arrives; a non-empty one is written to
\* mp3_buffer and counted
CollectChunk ==
    /\ sc_ppc = "iter"
    /\ sc_i < Len(sc_src)
    /\ sc_i' = sc_i + 1
    /\ IF sc_src[sc_i + 1] > 0
       THEN /\ sc_buf' = Append(sc_buf, sc_i + 1)
            /\ sc_count' = sc_count + 1
            /\ sc_ppc' = IF Tell(sc_buf) + sc_src[sc_i + 1] > Threshold
                         THEN "put_data" ELSE "iter"
       ELSE UNCHANGED <<sc_buf, sc_count, sc_ppc>>
    /\ UNCHANGED <<sc_src, sc_queue, sc_event, sc_cpc, sc_cur, sc_pushed,
                   sc_played, sc_exit, sc_ret>>

\* collection_queue.put(('data', mp3_buffer.getvalue())); mp3_buffer = io.BytesIO()
CollectPutData ==
    /\ sc_ppc = "put_data"
    /\ Put([type |-> "data", data |-> sc_buf])
    /\ sc_pushed' = Append(sc_pushed, sc_buf)
    /\ sc_buf' = << >>
    /\ sc_ppc' = "iter"
    /\ UNCHANGED <<sc_src, sc_i, sc_count, sc_event, sc_cpc, sc_cur, sc_played,
                   sc_exit, sc_ret>>

\* the stream is exhausted: the for loop ends
CollectEnd ==
    /\ sc_ppc = "iter"
    /\ sc_i = Len(sc_src)
    /\ sc_ppc' = "final"
    /\ UNCHANGED <<sc_src, sc_i, sc_buf, sc_count, sc_queue, sc_event, sc_cpc,
                   sc_cur, sc_pushed, sc_played, sc_exit, sc_ret>>

\* the stream raises an Exception while the collector waits for a chunk
CollectRaise ==
    /\ sc_ppc = "iter"
    /\ sc_ppc' = "error"
    /\ UNCHANGED <<sc_src, sc_i, sc_buf, sc_count, sc_queue, sc_event, sc_cpc,
                   sc_cur, sc_pushed, sc_played, sc_exit, sc_ret>>

\* if mp3_buffer.tell() > 0: collection_queue.put(('data', ...))
CollectPutFinal ==
    /\ sc_ppc = "final"
    /\ IF Tell(sc_buf) > 0
       THEN /\ Put([type |-> "data", data |-> sc_buf])
            /\ sc_pushed' = Append(sc_pushed, sc_buf)
       ELSE UNCHANGED <<sc_queue, sc_pushed>>
    /\ sc_ppc' = "complete"
    /\ UNCHANGED <<sc_src, sc_i, sc_buf, sc_count, sc_event, sc_cpc, sc_cur,
                   sc_played, sc_exit, sc_ret>>

\* collection_queue.put(('complete', chunk_count))
CollectPutComplete ==
    /\ sc_ppc = "complete"
    /\ Put([type |-> "complete", data |-> << >>])
    /\ sc_ppc' = "finally"
    /\ UNCHANGED <<sc_src, sc_i, sc_buf, sc_count, sc_event, sc_cpc, sc_cur,
                   sc_pushed, sc_played, sc_exit, sc_ret>>

\* except Exception as e: collection_queue.put(('error', str(e)))
CollectPutErrorFlush ==
    /\ sc_ppc = "error"
    /\ NotFull(sc_queue)
    /\ sc_queue' = sc_queue \o (IF sc_buf # << >>
                                 THEN <<[type |-> "data", data |-> sc_buf]>>
                                 ELSE << >>)
                            \o <<[type |-> "error", data |-> << >>]>>
    /\ sc_pushed' = IF sc_buf # << >> THEN Append(sc_pushed, sc_buf) ELSE sc_pushed
    /\ sc_ppc' = "finally"
    /\ UNCHANGED <<sc_src, sc_i, sc_buf, sc_count, sc_event, sc_cpc, sc_cur,
                   sc_played, sc_exit, sc_ret>>
CollectPutError ==
    /\ sc_ppc = "error"
    /\ Put([type |-> "error", data |-> << >>])
    /\ sc_ppc' = "finally"
    /\ UNCHANGED <<sc_src, sc_i, sc_buf, sc_count, sc_event, sc_cpc, sc_cur,
                   sc_pushed, sc_played, sc_exit, sc_ret>>

\* finally: collection_complete.set()
CollectSetEvent ==
    /\ sc_ppc = "finally"
    /\ sc_event' = TRUE
    /\ sc_ppc' = "done"
    /\ UNCHANGED <<sc_src, sc_i, sc_buf, sc_count, sc_queue, sc_cpc, sc_cur,
                   sc_pushed, sc_played, sc_exit, sc_ret>>

\* while not complete_event.is_set() ... : the first operand
PlayTestEventSkipped ==
    /\ sc_cpc = "while"
    /\ sc_cpc' = "empty"
    /\ UNCHANGED <<sc_src, sc_i, sc_buf, sc_count, sc_queue, sc_event, sc_ppc,
                   sc_cur, sc_pushed, sc_played, sc_exit, sc_ret>>
PlayTestEvent ==
    /\ sc_cpc = "while"
    /\ sc_cpc' = IF ~sc_event THEN "get" ELSE "empty"
    /\ UNCHANGED <<sc_src, sc_i, sc_buf, sc_count, sc_queue, sc_event, sc_ppc,
                   sc_cur, sc_pushed, sc_played, sc_exit, sc_ret>>

\* ... or not data_queue.empty(): the second operand; the loop ends if both
\* are false
PlayTestEmpty ==
    /\ sc_cpc = "empty"
    /\ IF sc_queue # << >>
       THEN sc_cpc' = "get" /\ UNCHANGED sc_exit
       ELSE sc_cpc' = "finally" /\ sc_exit' = "drained"
    /\ UNCHANGED <<sc_src, sc_i, sc_buf, sc_count, sc_queue, sc_event, sc_ppc,
                   sc_cur, sc_pushed, sc_played, sc_ret>>

\* message_type, data = data_queue.get(timeout=1.0) returning a message;
\* 'complete' and 'error' break out of the loop
PlayGet ==
    /\ sc_cpc = "get"
    /\ sc_queue # << >>
    /\ LET got == QueueGet(sc_queue) IN
         /\ sc_queue' = got.rest
         /\ IF got.item.type = "data"
            THEN /\ sc_cur' = got.item.data
                 /\ sc_cpc' = "play"
                 /\ UNCHANGED sc_exit
            ELSE /\ sc_exit' = got.item.type
                 /\ sc_cpc' = "finally"
                 /\ UNCHANGED sc_cur
    /\ UNCHANGED <<sc_src, sc_i, sc_buf, sc_count, sc_event, sc_ppc, sc_pushed,
                   sc_played, sc_ret>>

\* the get times out on an empty queue: except queue.Empty: continue
PlayGetTimeout ==
    /\ sc_cpc = "get"
    /\ sc_queue = << >>
    /\ sc_cpc' = "while"
    /\ UNCHANGED <<sc_src, sc_i, sc_buf, sc_count, sc_queue, sc_event, sc_ppc,
                   sc_cur, sc_pushed, sc_played, sc_exit, sc_ret>>

\* the 'data' branch: AudioSegment.from_file ... stream.write(pcm_data); an
\* exception from the decoder or the device leaves the loop
PlayData(ok) ==
    /\ sc_cpc = "play"
    /\ IF ok
       THEN /\ sc_played' = Append(sc_played, sc_cur)
            /\ sc_cpc' = "while"
            /\ UNCHANGED sc_exit
       ELSE /\ sc_exit' = "raised"
            /\ sc_cpc' = "finally"
            /\ UNCHANGED sc_played
    /\ sc_cur' = << >>
    /\ UNCHANGED <<sc_src, sc_i, sc_buf, sc_count, sc_queue, sc_event, sc_ppc,
                   sc_pushed, sc_ret>>

\* finally: stream.stop_stream(); stream.close(); p.terminate(); an exception
\* that left the loop then leaves _play_collected_data and play
PlayFinally ==
    /\ sc_cpc = "finally"
    /\ IF sc_exit = "raised"
       THEN sc_cpc' = "done" /\ sc_ret' = "raised"
       ELSE sc_cpc' = "join" /\ UNCHANGED sc_ret
    /\ UNCHANGED <<sc_src, sc_i, sc_buf, sc_count, sc_queue, sc_event, sc_ppc,
                   sc_cur, sc_pushed, sc_played, sc_exit>>

\* collector_thread.join(), and play returns
PlayJoin ==
    /\ sc_cpc = "join"
    /\ sc_ppc = "done"
    /\ sc_cpc' = "done"
    /\ sc_ret' = "returned"
    /\ UNCHANGED <<sc_src, sc_i, sc_buf, sc_count, sc_queue, sc_event, sc_ppc,
                   sc_cur, sc_pushed, sc_played, sc_exit>>

\* play(audio_chunks): the queue and the event are new, the collector thread
\* has been started and _play_collected_data has been called
CollectStart ==
    /\ sc_src \in SeqsUpTo(ChunkSizes, MaxChunks)
    /\ sc_i = 0
    /\ sc_buf = << >>
    /\ sc_count = 0
    /\ sc_queue = << >>
    /\ sc_event = FALSE
    /\ sc_ppc = "iter"
    /\ sc_cpc = "while"
    /\ sc_cur = << >>
    /\ sc_pushed = << >>
    /\ sc_played = << >>
    /\ sc_exit = "none"
    /\ sc_ret = "none"

CollectIdle ==
    /\ sc_src = << >>
    /\ sc_i = 0
    /\ sc_buf = << >>
    /\ sc_count = 0
    /\ sc_queue = << >>
    /\ sc_event = FALSE
    /\ sc_ppc = "idle"
    /\ sc_cpc = "idle"
    /\ sc_cur = << >>
    /\ sc_pushed = << >>
    /\ sc_played = << >>
    /\ sc_exit = "none"
    /\ sc_ret = "none"

(***************************************************************************)
(* main.py: the prosody fields of POST /tts/stream.  A string is a         *)
(* sequence of characters; int() and float() are modelled by parsing it.   *)
(***************************************************************************)
DigitVal(c) ==
    CASE c = "0" -> 0 [] c = "1" -> 1 [] c = "2" -> 2 [] c = "3" -> 3
      [] c = "4" -> 4 [] c = "5" -> 5 [] c = "6" -> 6 [] c = "7" -> 7
      [] c = "8" -> 8 [] c = "9" -> 9

Digits == {"0", "1", "2", "3", "4", "5", "6", "7", "8", "9"}

\* s.strip()
RECURSIVE LStrip(_)
LStrip(s) == IF s # << >> /\ Head(s) = " " THEN LStrip(Tail(s)) ELSE s
RECURSIVE RStrip(_)
RStrip(s) ==
    IF s # << >> /\ s[Len(s)] = " " THEN RStrip(SubSeq(s, 1, Len(s) - 1)) ELSE s
Strip(s) == RStrip(LStrip(s))

AllDigits(s) == \A i \in 1..Len(s) : s[i] \in Digits

RECURSIVE Decimal(_)
Decimal(s) ==
    IF s = << >> THEN 0
    ELSE 10 * Decimal(SubSeq(s, 1, Len(s) - 1)) + DigitVal(s[Len(s)])

RECURSIVE Pow10(_)
Pow10(n) == IF n = 0 THEN 1 ELSE 10 * Pow10(n - 1)

Signed(s) == s # << >> /\ Head(s) \in {"-", "+"}
SignOf(s) == IF s # << >> /\ Head(s) = "-" THEN -1 ELSE 1
Unsigned(s) == IF Signed(s) THEN Tail(s) ELSE s

\* int(s): an optional sign and one or more digits; ok FALSE is ValueError
ParseInt(s) ==
    LET b == Unsigned(s) IN
    IF b # << >> /\ AllDigits(b)
    THEN [ok |-> TRUE, val |-> SignOf(s) * Decimal(b)]
    ELSE [ok |-> FALSE, val |-> 0]

\* float(s): an optional sign, digits with at most one point and at least
\* one digit; ok FALSE is ValueError
ParseFloat(s) ==
    LET b == Unsigned(s)
        dots == { i \in 1..Len(b) : b[i] = "." }
    IN IF dots = {}
       THEN IF b # << >> /\ AllDigits(b)
            THEN [ok |-> TRUE, val |-> Rat(SignOf(s) * Decimal(b), 1)]
            ELSE [ok |-> FALSE, val |-> Zero]
       ELSE LET d == CHOOSE i \in dots : TRUE
                ip == SubSeq(b, 1, d - 1)
                fp == SubSeq(b, d + 1, Len(b))
            IN IF Cardinality(dots) = 1 /\ AllDigits(ip) /\ AllDigits(fp)
                  /\ Len(ip) + Len(fp) > 0
               THEN [ok |-> TRUE,
                     val |-> Rat(SignOf(s) * (Decimal(ip) * Pow10(Len(fp)) + Decimal(fp)),
                                 Pow10(Len(fp)))]
               ELSE [ok |-> FALSE, val |-> Zero]

\* the outcome of a helper: a value, or an exception leaving it
Value(v) == [raised |-> FALSE, val |-> v]
Raised == [raised |-> TRUE, val |-> Zero]

\* an Optional[int]: None, or an integer
NoInt == [some |-> FALSE, v |-> 0]
IsNone(x) == "some" \in DOMAIN x /\ ~x.some

\* _to_int_or_none(v)
_to_int_or_none(v) ==
    IF ~v.some THEN Value(NoInt)
    ELSE LET s == Strip(v.v) IN
         IF s = << >> THEN Value(NoInt)
         ELSE IF ParseInt(s).ok THEN Value(Some(ParseInt(s).val))
         ELSE Value(NoInt)

\* _to_float(v, default)
ToFloatNoExcept(v, default) ==
    IF ~v.some THEN Value(default)
    ELSE LET s == Strip(v.v) IN
         IF s = << >> THEN Value(default)
         ELSE IF ParseFloat(s).ok THEN Value(ParseFloat(s).val)
         ELSE Raised
_to_float(v, default) ==
    IF ~v.some THEN Value(default)
    ELSE LET s == Strip(v.v) IN
         IF s = << >> THEN Value(default)
         ELSE IF ParseFloat(s).ok THEN Value(ParseFloat(s).val)
         ELSE Value(default)

ProsodyFields == {"speaker_id", "length_scale", "noise_scale", "noise_w"}

\* the Form(...) defaults of the endpoint: the value of a field not sent
FormDefault ==
    [speaker_id |-> None,
     length_scale |-> Some(<<"0", ".", "9", "6">>),
     noise_scale |-> Some(<<"0", ".", "6", "0">>),
     noise_w |-> Some(<<"0", ".", "8">>)]

FormValue(form, f) == IF form[f].some THEN form[f] ELSE FormDefault[f]

\* _cfg_values, each entry with its outcome
CfgValues(form) ==
    [speaker_id |-> _to_int_or_none(FormValue(form, "speaker_id")),
     length_scale |-> _to_float(FormValue(form, "length_scale"), Rat(96, 100)),
     noise_scale |-> _to_float(FormValue(form, "noise_scale"), Rat(60, 100)),
     noise_w |-> _to_float(FormValue(form, "noise_w"), Rat(8, 10))]

\* set(signature(SynthesisConfig).parameters.keys()) for the piper-tts
\* versions the code names, and the set used when signature() fails
ParamSets ==
    { {"speaker_id", "length_scale", "noise_scale", "noise_w"},
      {"speaker", "length_scale", "noise_scale", "noise_scale_w"},
      {"speaker_id", "length_scale", "noise_scale", "noise_w", "noise_scale_w",
       "speaker"} }

\* the loop that fills _cfg_kwargs
CfgKwargs(values, params) ==
    { [k |-> IF f \in params THEN f
             ELSE IF f = "noise_w" THEN "noise_scale_w" ELSE "speaker",
       v |-> values[f]] :
        f \in { g \in ProsodyFields :
                  /\ ~IsNone(values[g])
                  /\ \/ g \in params
                     \/ g = "noise_w" /\ "noise_scale_w" \in params
                     \/ g = "speaker_id" /\ "speaker" \in params } }

\* what a client may send in a field: nothing, or one of these strings
IntStrings ==
    { << >>, <<" ">>, <<"a", "b">>, <<"2">>, <<" ", "2", " ">>,
      <<"1", ".", "5">>, <<"-", "1">> }
FloatStrings ==
    { << >>, <<" ">>, <<"a", "b">>, <<"1", ".", "5">>, <<" ", "2", " ">>,
      <<"1", ".">>, <<".">>, <<"1", ".", "2", ".", "5">> }

Forms ==
    [speaker_id : {None} \cup { Some(s) : s \in IntStrings },
     length_scale : {None} \cup { Some(s) : s \in FloatStrings },
     noise_scale : {None} \cup { Some(s) : s \in FloatStrings },
     noise_w : {None} \cup { Some(s) : s \in FloatStrings }]

\* lines 1128-1133: the four fields are parsed; an exception leaving a
\* helper would end the request
ProsodyParse ==
    /\ pr_pc = "request"
    /\ LET c == CfgValues(pr_form) IN
         IF \E f \in ProsodyFields : c[f].raised
         THEN pr_pc' = "failed" /\ UNCHANGED pr_values
         ELSE /\ pr_pc' = "parsed"
              /\ pr_values' = [f \in ProsodyFields |-> c[f].val]
    /\ UNCHANGED <<pr_form, pr_params, pr_kwargs>>

\* lines 1141-1152: cfg = SynthesisConfig(**_cfg_kwargs)
ProsodyConfig ==
    /\ pr_pc = "parsed"
    /\ pr_kwargs' = CfgKwargs(pr_values, pr_params)
    /\ pr_pc' = "configured"
    /\ UNCHANGED <<pr_form, pr_params, pr_values>>

ProsodyStart ==
    /\ pr_pc = "request"
    /\ pr_form \in Forms
    /\ pr_params \in ParamSets
    /\ pr_values = [f \in ProsodyFields |-> NoInt]
    /\ pr_kwargs = {}

ProsodyIdle ==
    /\ pr_pc = "idle"
    /\ pr_form = [f \in ProsodyFields |-> None]
    /\ pr_params = {}
    /\ pr_values = [f \in ProsodyFields |-> NoInt]
    /\ pr_kwargs = {}

(***************************************************************************)
(* main.py lines 1100-1102 and the preset builders of character_fx.py.     *)
(* A JSON text is a sequence of tokens: "{", pairs of a key and a value,   *)
(* "}"; a JSON value is a number, a string or null.                        *)
(***************************************************************************)
JsonNum(r) == [kind |-> "num", num |-> r, str |-> << >>]
JsonStr(s) == [kind |-> "str", num |-> Zero, str |-> s]
JsonNull == [kind |-> "null", num |-> Zero, str |-> << >>]

Brace(b) == [tok |-> b, key |-> "", val |-> JsonNull]
Pair(k, v) == [tok |-> "pair", key |-> k, val |-> v]

\* json.loads(text): an object between braces; ok FALSE is JSONDecodeError.
\* The last pair with a key gives its value.
JsonLoads(text) ==
    IF /\ Len(text) >= 2
       /\ text[1].tok = "{"
       /\ text[Len(text)].tok = "}"
       /\ \A i \in 2..(Len(text) - 1) : text[i].tok = "pair"
    THEN [ok |-> TRUE,
          obj |-> [k \in { text[i].key : i \in 2..(Len(text) - 1) } |->
                     text[CHOOSE i \in 2..(Len(text) - 1) :
                            /\ text[i].key = k
                            /\ \A j \in 2..(Len(text) - 1) :
                                  text[j].key = k => j <= i].val]]
    ELSE [ok |-> FALSE, obj |-> << >>]

\* float(x) for a JSON value: a number is itself, a string is parsed (float
\* strips blanks itself), None is a TypeError
Float(x, default) ==
    IF x.kind = "num" THEN Value(x.num)
    ELSE IF x.kind = "str" /\ ParseFloat(Strip(x.str)).ok
         THEN Value(ParseFloat(Strip(x.str)).val)
         ELSE Raised

\* the stages of each preset with the keyword arguments the builders pass:
\* arg=float(over.get(key, default))
PresetParams ==
    [wizard |-> <<
        [stage |-> "Gain", arg |-> "gain_db", key |-> "gain_db", default |-> Rat(-2, 1)],
        [stage |-> "PitchShift", arg |-> "semitones", key |-> "pitch_semitones", default |-> Rat(-2, 1)],
        [stage |-> "LowpassFilter", arg |-> "cutoff_frequency_hz", key |-> "lowpass_hz", default |-> Rat(9000, 1)],
        [stage |-> "Reverb", arg |-> "room_size", key |-> "room_size", default |-> Rat(9, 10)],
        [stage |-> "Reverb", arg |-> "wet_level", key |-> "wet", default |-> Rat(28, 100)],
        [stage |-> "Reverb", arg |-> "dry_level", key |-> "dry", default |-> Rat(72, 100)],
        [stage |-> "Reverb", arg |-> "damping", key |-> "damping", default |-> Rat(35, 100)],
        [stage |-> "Reverb", arg |-> "width", key |-> "width", default |-> Rat(1, 1)],
        [stage |-> "Compressor", arg |-> "threshold_db", key |-> "thr_db", default |-> Rat(-18, 1)],
        [stage |-> "Compressor", arg |-> "ratio", key |-> "ratio", default |-> Rat(3, 1)],
        [stage |-> "Compressor", arg |-> "attack_ms", key |-> "attack_ms", default |-> Rat(8, 1)],
        [stage |-> "Compressor", arg |-> "release_ms", key |-> "release_ms", default |-> Rat(120, 1)]
        >>,
     robot |-> <<
        [stage |-> "HighpassFilter", arg |-> "cutoff_frequency_hz", key |-> "hp_hz", default |-> Rat(300, 1)],
        [stage |-> "LowpassFilter", arg |-> "cutoff_frequency_hz", key |-> "lp_hz", default |-> Rat(3200, 1)],
        [stage |-> "Delay", arg |-> "delay_seconds", key |-> "delay_s", default |-> Rat(12, 1000)],
        [stage |-> "Delay", arg |-> "feedback", key |-> "feedback", default |-> Rat(2, 10)],
        [stage |-> "Delay", arg |-> "mix", key |-> "mix", default |-> Rat(25, 100)],
        [stage |-> "Distortion", arg |-> "drive_db", key |-> "drive_db", default |-> Rat(12, 1)],
        [stage |-> "Compressor", arg |-> "threshold_db", key |-> "thr_db", default |-> Rat(-16, 1)],
        [stage |-> "Compressor", arg |-> "ratio", key |-> "ratio", default |-> Rat(4, 1)]
        >>,
     fairy |-> <<
        [stage |-> "Gain", arg |-> "gain_db", key |-> "gain_db", default |-> Rat(-1, 1)],
        [stage |-> "PitchShift", arg |-> "semitones", key |-> "pitch_semitones", default |-> Rat(4, 1)],
        [stage |-> "Chorus", arg |-> "rate_hz", key |-> "chorus_rate_hz", default |-> Rat(16, 10)],
        [stage |-> "Chorus", arg |-> "depth", key |-> "chorus_depth", default |-> Rat(4, 10)],
        [stage |-> "Chorus", arg |-> "centre_delay_ms", key |-> "chorus_delay_ms", default |-> Rat(7, 1)],
        [stage |-> "Chorus", arg |-> "feedback", key |-> "chorus_fb", default |-> Rat(15, 100)],
        [stage |-> "Chorus", arg |-> "mix", key |-> "chorus_mix", default |-> Rat(35, 100)],
        [stage |-> "HighpassFilter", arg |-> "cutoff_frequency_hz", key |-> "hp_hz", default |-> Rat(160, 1)],
        [stage |-> "Reverb", arg |-> "room_size", key |-> "room_size", default |-> Rat(65, 100)],
        [stage |-> "Reverb", arg |-> "wet_level", key |-> "wet", default |-> Rat(18, 100)],
        [stage |-> "Reverb", arg |-> "dry_level", key |-> "dry", default |-> Rat(82, 100)],
        [stage |-> "Reverb", arg |-> "damping", key |-> "damping", default |-> Rat(3, 10)],
        [stage |-> "Reverb", arg |-> "width", key |-> "width", default |-> Rat(1, 1)],
        [stage |-> "Compressor", arg |-> "threshold_db", key |-> "thr_db", default |-> Rat(-20, 1)],
        [stage |-> "Compressor", arg |-> "ratio", key |-> "ratio", default |-> Rat(2, 1)]
        >>,
     goblin |-> <<
        [stage |-> "PitchShift", arg |-> "semitones", key |-> "pitch_semitones", default |-> Rat(-4, 1)],
        [stage |-> "LowpassFilter", arg |-> "cutoff_frequency_hz", key |-> "lowpass_hz", default |-> Rat(6500, 1)],
        [stage |-> "Distortion", arg |-> "drive_db", key |-> "drive_db", default |-> Rat(18, 1)],
        [stage |-> "Compressor", arg |-> "threshold_db", key |-> "thr_db", default |-> Rat(-22, 1)],
        [stage |-> "Compressor", arg |-> "ratio", key |-> "ratio", default |-> Rat(35, 10)],
        [stage |-> "Reverb", arg |-> "room_size", key |-> "room_size", default |-> Rat(4, 10)],
        [stage |-> "Reverb", arg |-> "wet_level", key |-> "wet", default |-> Rat(1, 10)],
        [stage |-> "Reverb", arg |-> "dry_level", key |-> "dry", default |-> Rat(9, 10)]
        >>]

\* float(over.get(key, default)) for one argument
ArgValue(p, over) ==
    IF p.key \in DOMAIN over THEN Float(over[p.key], p.default)
    ELSE Value(p.default)

\* build_board(preset, overrides) with the arguments of its stages:
\* Pedalboard([]) for an unknown preset, else builder(overrides or {})
BuildBoardArgs(preset, over) ==
    IF preset \notin DOMAIN PRESET_BUILDERS
    THEN [raised |-> FALSE, args |-> << >>]
    ELSE LET ps == PresetParams[preset]
             vs == [i \in 1..Len(ps) |-> ArgValue(ps[i], over)]
         IN IF \E i \in 1..Len(ps) : vs[i].raised
            THEN [raised |-> TRUE, args |-> << >>]
            ELSE [raised |-> FALSE,
                  args |-> [i \in 1..Len(ps) |->
                              [stage |-> ps[i].stage, arg |-> ps[i].arg,
                               val |-> vs[i].val]]]

\* the override maps a client may send: some of these keys, each with a
\* number, a string that spells a number, a string that does not, or null
OverrideKeys == {"gain_db", "ratio", "bogus"}
OverrideValues ==
    { JsonNum(Rat(3, 2)), JsonStr(<<"2">>), JsonStr(<<"a", "b">>), JsonNull }

Dumps1(k, v) == <<Brace("{"), Pair(k, v), Brace("}")>>
Dumps2(k1, v1, k2, v2) == <<Brace("{"), Pair(k1, v1), Pair(k2, v2), Brace("}")>>

\* fx_overrides: not sent, empty, the text of an object, or a text cut short
OverrideTexts ==
    {None, Some(<< >>), Some(<<Brace("{"), Brace("}")>>)}
        \cup { Some(Dumps1(k, v)) : k \in OverrideKeys, v \in OverrideValues }
        \cup { Some(Dumps2("gain_db", v1, k2, v2)) :
                 v1 \in OverrideValues, k2 \in {"ratio", "bogus"}, v2 \in OverrideValues }
        \cup { Some(<<Brace("{"), Pair(k, JsonNum(Rat(3, 2)))>>) : k \in OverrideKeys }

EmptyMap == [k \in {} |-> JsonNull]

\* over = _json.loads(fx_overrides) if fx_overrides else {}
OverridesLoad ==
    /\ ov_pc = "request"
    /\ IF ~ov_text.some \/ ov_text.v = << >>
       THEN /\ ov_over' = EmptyMap
            /\ ov_pc' = "loaded"
            /\ UNCHANGED ov_status
       ELSE LET r == JsonLoads(ov_text.v) IN
            IF r.ok
            THEN /\ ov_over' = r.obj
                 /\ ov_pc' = "loaded"
                 /\ UNCHANGED ov_status
            ELSE /\ ov_pc' = "failed"
                 /\ ov_status' = 500
                 /\ UNCHANGED ov_over
    /\ UNCHANGED <<ov_preset, ov_text, ov_board>>

\* board = build_board(preset, over)
OverridesBuild ==
    /\ ov_pc = "loaded"
    /\ LET b == BuildBoardArgs(ov_preset, ov_over) IN
         IF b.raised
         THEN /\ ov_pc' = "failed"
              /\ ov_status' = 500
              /\ UNCHANGED ov_board
         ELSE /\ ov_pc' = "built"
              /\ ov_board' = b.args
              /\ UNCHANGED ov_status
    /\ UNCHANGED <<ov_preset, ov_text, ov_over>>

OverridesStart ==
    /\ ov_pc = "request"
    /\ ov_preset \in PresetNames
    /\ ov_text \in OverrideTexts
    /\ ov_over = EmptyMap
    /\ ov_board = << >>
    /\ ov_status = 0

OverridesIdle ==
    /\ ov_pc = "idle"
    /\ ov_preset = ""
    /\ ov_text = None
    /\ ov_over = EmptyMap
    /\ ov_board = << >>
    /\ ov_status = 0

(***************************************************************************)
(* main.py: POST /chat/stream.  A text is a sequence of characters.        *)
(***************************************************************************)
\* users 1 exists, user 2 does not
Users == {1}
UserIds == {1, 2}

\* the tokens the upstream may yield (never an empty one), the message
ChatTokens == { <<"a">>, <<"b", "c">> }
ChatMessage == <<"H", "i">>

\* response_text += token
AddTokenReplace(text, token) == token
AddToken(text, token) == text \o token

\* the last n elements of s
LastN(s, n) == IF Len(s) <= n THEN s ELSE SubSeq(s, Len(s) - n + 1, Len(s))

\* role_map.get(m.role, m.role)
RoleMap(role) == IF role = "bot" THEN "assistant" ELSE role

\* the messages array event_gen builds: the system prompt if any, then the
\* user's 20 most recent messages, oldest first
BuildMessages(db, user_id, system_prompt) ==
    LET mine == LastN(SelectSeq(db, LAMBDA m : m.user_id = user_id), 20)
        hist == [i \in 1..Len(mine) |->
                   [role |-> RoleMap(mine[i].role), content |-> mine[i].content]]
    IN IF system_prompt # << >>
       THEN <<[role |-> "system", content |-> system_prompt]>> \o hist
       ELSE hist

NoChatRequest == [user_id |-> 0, message |-> << >>, system_prompt |-> << >>]

\* a client posts to /chat/stream
ChatPost(user_id, system_prompt) ==
    /\ ch_pc = "idle"
    /\ ch_n < MaxRequests
    /\ ch_n' = ch_n + 1
    /\ ch_req' = [user_id |-> user_id, message |-> ChatMessage,
                  system_prompt |-> system_prompt]
    /\ ch_log' = Append(ch_log, [status |-> 0, sent |-> << >>, ending |-> "none"])
    /\ ch_text' = << >>
    /\ ch_messages' = << >>
    /\ ch_pc' = "handler"
    /\ UNCHANGED ch_db

\* chat_stream up to its return: 404 for an unknown user, else the user's
\* message is added and committed and the StreamingResponse is returned
ChatStream ==
    /\ ch_pc = "handler"
    /\ IF ch_req.user_id \notin Users
       THEN /\ ch_log' = [ch_log EXCEPT ![ch_n].status = 404]
            /\ ch_pc' = "idle"
            /\ UNCHANGED ch_db
       ELSE /\ ch_db' = Append(ch_db, [user_id |-> ch_req.user_id, role |-> "user",
                                       content |-> ch_req.message, n |-> ch_n])
            /\ ch_log' = [ch_log EXCEPT ![ch_n].status = 200]
            /\ ch_pc' = "respond"
    /\ UNCHANGED <<ch_n, ch_req, ch_messages, ch_text>>

\* event_gen up to the async for: the messages array is built
EventGenBegin ==
    /\ ch_pc = "respond"
    /\ ch_messages' = BuildMessages(ch_db, ch_req.user_id, ch_req.system_prompt)
    /\ ch_pc' = "streaming"
    /\ UNCHANGED <<ch_n, ch_req, ch_db, ch_text, ch_log>>

\* one turn of the async for: response_text += token; yield token
EventGenToken(token) ==
    /\ ch_pc = "streaming"
    /\ Len(ch_log[ch_n].sent) < MaxTokens
    /\ ch_text' = AddToken(ch_text, token)
    /\ ch_log' = [ch_log EXCEPT ![ch_n].sent = Append(@, token)]
    /\ UNCHANGED <<ch_pc, ch_n, ch_req, ch_db, ch_messages>>

\* the upstream is exhausted: the bot message is added and committed
EventGenEnd ==
    /\ ch_pc = "streaming"
    /\ ch_db' = Append(ch_db, [user_id |-> ch_req.user_id, role |-> "bot",
                               content |-> ch_text, n |-> ch_n])
    /\ ch_log' = [ch_log EXCEPT ![ch_n].ending = "exhausted"]
    /\ ch_pc' = "idle"
    /\ UNCHANGED <<ch_n, ch_req, ch_messages, ch_text>>

\* the upstream raises (raise_for_status, a network error), or the client
\* goes away and the generator is closed: event_gen ends where it is
EventGenAbort(ending) ==
    /\ ch_pc \in {"respond", "streaming"}
    /\ ch_log' = [ch_log EXCEPT ![ch_n].ending = ending]
    /\ ch_pc' = "idle"
    /\ UNCHANGED <<ch_n, ch_req, ch_db, ch_messages, ch_text>>

ChatStart ==
    /\ ch_pc = "idle"
    /\ ch_n = 0
    /\ ch_req = NoChatRequest
    /\ ch_db = << >>
    /\ ch_messages = << >>
    /\ ch_text = << >>
    /\ ch_log = << >>

ChatIdle == ChatStart

(***************************************************************************)
(* secrets.py.  A str is a sequence of code points, bytes are a sequence   *)
(* of integers 0..255, a base64 text is a sequence of alphabet positions   *)
(* 0..63 and 64 for "=".                                                   *)
(***************************************************************************)
RECURSIVE Utf8Encode(_)
\* plaintext.encode("utf-8") for code points below 2048
Utf8Encode(s) ==
    IF s = << >> THEN << >>
    ELSE LET c == Head(s) IN
         (IF c < 128 THEN <<c>> ELSE <<192 + (c \div 64), 128 + (c % 64)>>)
             \o Utf8Encode(Tail(s))

RECURSIVE Utf8Decode(_)
\* pt.decode("utf-8") for one- and two-byte sequences
Utf8Decode(b) ==
    IF b = << >> THEN << >>
    ELSE IF Head(b) < 128 THEN <<Head(b)>> \o Utf8Decode(Tail(b))
    ELSE <<(Head(b) - 192) * 64 + (b[2] - 128)>> \o Utf8Decode(Tail(Tail(b)))

RECURSIVE XorBits(_, _, _)
XorBits(a, b, n) ==
    IF n = 0 THEN 0
    ELSE (((a % 2) + (b % 2)) % 2) + 2 * XorBits(a \div 2, b \div 2, n - 1)

\* a ^ b for two bytes
Xor(a, b) == XorBits(a, b, 8)

RECURSIVE SumSeq(_)
SumSeq(s) == IF s = << >> THEN 0 ELSE Head(s) + SumSeq(Tail(s))

\* byte j of hmac.new(key, nonce + struct.pack(">I", counter), sha256).digest()
\* for the process's master key: some fixed function of nonce, counter and j
HmacByte(nonce, counter, j) ==
    ((SumSeq(nonce) * 7) + (counter * 31) + (j * 13) + 5) % 256

\* _keystream(_MASTER_KEY, nonce, length): 32-byte blocks, cut to length
_keystream(nonce, length) ==
    [i \in 1..length |-> HmacByte(nonce, (i - 1) \div 32, (i - 1) % 32)]

\* bytes([a ^ b for a, b in zip(data, ks)])
XorBytes(data, ks) == [i \in 1..Len(data) |-> Xor(data[i], ks[i])]

RECURSIVE BitsOf(_)
\* the bits of a byte string, most significant first
BitsOf(b) ==
    IF b = << >> THEN << >>
    ELSE [i \in 1..8 |-> (Head(b) \div (2 ^ (8 - i))) % 2] \o BitsOf(Tail(b))

\* the number n bits spell
BitsValue(bits) ==
    LET RECURSIVE V(_)
        V(s) == IF s = << >> THEN 0 ELSE 2 * V(SubSeq(s, 1, Len(s) - 1)) + s[Len(s)]
    IN V(bits)

\* base64.urlsafe_b64encode(payload): groups of 6 bits, the last one filled
\* with zeros, and "=" up to a multiple of 4 characters
B64Encode(b) ==
    LET bits == BitsOf(b)
        full == bits \o [i \in 1..((6 - (Len(bits) % 6)) % 6) |-> 0]
        chars == [k \in 1..(Len(full) \div 6) |->
                    BitsValue(SubSeq(full, 6 * k - 5, 6 * k))]
    IN chars \o [i \in 1..((4 - (Len(chars) % 4)) % 4) |-> 64]

\* base64.urlsafe_b64decode(token): the whole bytes the characters spell
B64Decode(t) ==
    LET chars == SelectSeq(t, LAMBDA c : c # 64)
        bits == [i \in 1..(6 * Len(chars)) |->
                   (chars[(i + 5) \div 6] \div (2 ^ (5 - ((i - 1) % 6)))) % 2]
    IN [k \in 1..(Len(bits) \div 8) |-> BitsValue(SubSeq(bits, 8 * k - 7, 8 * k))]

\* encrypt(plaintext) with the nonce os.urandom(16) returned
encrypt(plaintext, nonce) ==
    LET data == Utf8Encode(plaintext)
        ct == XorBytes(data, _keystream(nonce, Len(data)))
    IN B64Encode(<<1>> \o nonce \o ct)

\* decrypt(token); raised TRUE is ValueError
decrypt(token) ==
    LET raw == B64Decode(token) IN
    IF raw = << >> \/ raw[1] # 1
    THEN [raised |-> TRUE, val |-> << >>]
    ELSE LET nonce == SubSeq(raw, 2, 17)
             ct == SubSeq(raw, 18, Len(raw))
         IN [raised |-> FALSE,
             val |-> Utf8Decode(XorBytes(ct, _keystream(nonce, Len(ct))))]

\* db.query(models.ApiSecret).filter(ApiSecret.name == name).first(): the
\* position of the first row with that name, 0 if there is none
First(db, name) ==
    LET at == { i \in 1..Len(db) : db[i].name = name } IN
    IF at = {} THEN 0 ELSE CHOOSE i \in at : \A j \in at : i <= j

\* get_secret(db, name)
get_secret(db, env, name) ==
    LET rec == First(db, name) IN
    IF rec # 0 /\ db[rec].value_enc # << >>
    THEN IF decrypt(db[rec].value_enc).raised THEN None
         ELSE Some(decrypt(db[rec].value_enc).val)
    ELSE IF env.allow THEN env.vars[name] ELSE None

\* set_secret(db, name, value): the row found takes the new text, else a
\* row is added
SetAlwaysAdds(db, name, enc) == Append(db, [name |-> name, value_enc |-> enc])
set_secret(db, name, enc) ==
    LET rec == First(db, name) IN
    IF rec # 0 THEN [db EXCEPT ![rec].value_enc = enc]
    ELSE Append(db, [name |-> name, value_enc |-> enc])

\* delete_secret(db, name)
delete_secret(db, name) ==
    LET rec == First(db, name) IN
    IF rec # 0 THEN SubSeq(db, 1, rec - 1) \o SubSeq(db, rec + 1, Len(db))
    ELSE db

SecretNames == {"OPENROUTER_API_KEY", "ELEVENLABS_API_KEY"}

\* the values stored: "", "k1", and "é" (a two-byte character)
SecretValues == { << >>, <<107, 49>>, <<233>> }

\* two of the values os.urandom(16) can return
Nonces == { [i \in 1..16 |-> 0], [i \in 1..16 |-> 16 * i - 1] }

SetSecret(name, value, nonce) ==
    /\ Len(se_hist) < MaxOps
    /\ se_db' = set_secret(se_db, name, encrypt(value, nonce))
    /\ se_hist' = Append(se_hist, [op |-> "set", name |-> name, value |-> value])
    /\ UNCHANGED <<se_env, se_got>>

DeleteSecret(name) ==
    /\ Len(se_hist) < MaxOps
    /\ se_db' = delete_secret(se_db, name)
    /\ se_hist' = Append(se_hist, [op |-> "delete", name |-> name, value |-> << >>])
    /\ UNCHANGED <<se_env, se_got>>

GetSecret(name) ==
    /\ Len(se_hist) < MaxOps
    /\ se_got' = [name |-> name, result |-> get_secret(se_db, se_env, name)]
    /\ se_hist' = Append(se_hist, [op |-> "get", name |-> name, value |-> << >>])
    /\ UNCHANGED <<se_db, se_env>>

NoEnv == [allow |-> FALSE, vars |-> [n \in SecretNames |-> None]]

\* an empty table; ALLOW_ENV_SECRETS unset, or set with one key in the
\* environment
SecretsStart ==
    /\ se_db = << >>
    /\ se_env \in { NoEnv,
                    [allow |-> TRUE,
                     vars |-> [n \in SecretNames |->
                                 IF n = "OPENROUTER_API_KEY" THEN Some(<<101>>)
                                 ELSE None]] }
    /\ se_hist = << >>
    /\ se_got = [name |-> "", result |-> None]

SecretsIdle ==
    /\ se_db = << >>
    /\ se_env = NoEnv
    /\ se_hist = << >>
    /\ se_got = [name |-> "", result |-> None]

(***************************************************************************)
(* main.py line 1102 and lines 1201-1210, character_fx.py apply_fx_block:  *)
(* the chain objects of two requests served at the same time.  The         *)
(* continuity state of a chain is what its stages remember: the blocks     *)
(* heard since they were last reset.                                       *)
(***************************************************************************)
ChainRequests == {1, 2}

\* the blocks a request's synthesis may yield
ChainBlocks == { pcm16_to_float32(b) : b \in UpstreamBlocks }

\* Pedalboard([...]): a new object whose stages have heard nothing
NewPedalboard(stages, r) == [stages |-> stages, state |-> << >>, owner |-> r]

\* board(block, sr), that is Pedalboard.__call__(input_array, sample_rate,
\* buffer_size=8192, reset=True): with reset the stages are reset before the
\* block is processed.  pre is the state the block is processed with, post
\* the state left behind.  The stub class used when pedalboard is not
\* installed returns its input, and an empty chain has no stage: neither
\* remembers anything.
PedalboardCall(obj, block, pedalboard, reset) ==
    IF obj.stages = << >> \/ ~pedalboard
    THEN [pre |-> obj.state, post |-> obj.state]
    ELSE LET pre == IF reset THEN << >> ELSE obj.state
         IN [pre |-> pre, post |-> Append(pre, block)]

\* a client posts the form
ChainRequest(r, preset) ==
    /\ cb_pc[r] = "idle"
    /\ cb_preset' = [cb_preset EXCEPT ![r] = preset]
    /\ cb_pc' = [cb_pc EXCEPT ![r] = "build"]
    /\ UNCHANGED <<cb_pedalboard, cb_heap, cb_board, cb_last, cb_calls>>

\* board = build_board(preset, over)
ChainBuild(r) ==
    /\ cb_pc[r] = "build"
    /\ cb_heap' = Append(cb_heap, NewPedalboard(build_board(cb_preset[r]), r))
    /\ cb_board' = [cb_board EXCEPT ![r] = Len(cb_heap) + 1]
    /\ cb_pc' = [cb_pc EXCEPT ![r] = "stream"]
    /\ UNCHANGED <<cb_pedalboard, cb_preset, cb_last, cb_calls>>

\* apply_fx_block(board, block, sr): out = board(block, sr), no reset argument
ChainApply(r, block) ==
    LET id == cb_board[r]
        c == PedalboardCall(cb_heap[id], block, cb_pedalboard, TRUE)
    IN /\ cb_heap' = [cb_heap EXCEPT ![id].state = c.post]
       /\ cb_calls' = [cb_calls EXCEPT ![r] =
                          Append(@, [board |-> id, block |-> block,
                                     pre |-> c.pre, post |-> c.post])]

\* one turn of the for loop of gen()
ChainBlock(r, block) ==
    /\ cb_pc[r] = "stream"
    /\ Len(cb_calls[r]) < MaxChainBlocks
    /\ cb_last' = [cb_last EXCEPT ![r] = Some(block)]
    /\ ChainApply(r, block)
    /\ UNCHANGED <<cb_pedalboard, cb_pc, cb_preset, cb_board>>

\* the iterator is exhausted: the flush block if a block was seen
ChainEnd(r) ==
    /\ cb_pc[r] = "stream"
    /\ IF cb_last[r].some
       THEN ChainApply(r, ZeroBlock(cb_last[r].v))
       ELSE UNCHANGED <<cb_heap, cb_calls>>
    /\ cb_pc' = [cb_pc EXCEPT ![r] = "done"]
    /\ UNCHANGED <<cb_pedalboard, cb_preset, cb_board, cb_last>>

ChainIdle ==
    /\ cb_pedalboard = FALSE
    /\ cb_heap = << >>
    /\ cb_pc = [r \in ChainRequests |-> "idle"]
    /\ cb_preset = [r \in ChainRequests |-> ""]
    /\ cb_board = [r \in ChainRequests |-> 0]
    /\ cb_last = [r \in ChainRequests |-> None]
    /\ cb_calls = [r \in ChainRequests |-> << >>]

ChainStart ==
    /\ cb_pedalboard \in BOOLEAN
    /\ cb_heap = << >>
    /\ cb_pc = [r \in ChainRequests |-> "idle"]
    /\ cb_preset = [r \in ChainRequests |-> ""]
    /\ cb_board = [r \in ChainRequests |-> 0]
    /\ cb_last = [r \in ChainRequests |-> None]
    /\ cb_calls = [r \in ChainRequests |-> << >>]

(***************************************************************************)
(* mp3_decoder.py: the two incremental decoders.  Whether                  *)
(* AudioSegment.from_file can decode the bytes buffered so far is decided  *)
(* by pydub and ffmpeg, outside the repository: either outcome may happen. *)
(***************************************************************************)
Decoders == {"mp3_chunks_to_pcm", "mp3_chunks_to_pcm_buffered"}

\* min_buffer_size=16384
min_buffer_size == 16384

\* chunk lengths: an empty chunk, half of min_buffer_size, min_buffer_size
DecoderChunkSizes == {0, 8192, 16384}

\* the length of the audio a decode may give, and target_samples
AudioLens == {1, 3}
target_samples == 2

RECURSIVE BufferTell(_)
\* buffer.tell() after a write: the bytes in the buffer
BufferTell(buf) ==
    IF buf = << >> THEN 0 ELSE md_src[Head(buf)] + BufferTell(Tail(buf))

\* while len(accumulated_audio) >= target_samples: yield the first
\* target_samples of it and keep the rest
RECURSIVE YieldChunks(_)
YieldChunks(acc) ==
    IF acc >= target_samples
    THEN LET rest == YieldChunks(acc - target_samples)
         IN [out |-> <<target_samples>> \o rest.out, acc |-> rest.acc]
    ELSE [out |-> << >>, acc |-> acc]

\* what a successful decode of the buffer does with audio of length len
Decoded(len) ==
    IF md_fn = "mp3_chunks_to_pcm"
    THEN [out |-> <<len>>, acc |-> md_acc]
    ELSE LET y == YieldChunks((IF md_acc.some THEN md_acc.v ELSE 0) + len)
         IN [out |-> y.out, acc |-> Some(y.acc)]

\* for chunk in chunks: if not chunk: continue
Mp3SkipEmpty ==
    /\ md_pc = "loop"
    /\ md_i < Len(md_src)
    /\ md_src[md_i + 1] = 0
    /\ md_i' = md_i + 1
    /\ UNCHANGED <<md_fn, md_src, md_buffer, md_tries, md_acc, md_out, md_pc,
                   md_result>>

\* mp3_chunks_to_pcm: buffer.write(chunk); if buffer.tell() < min_buffer_size:
\* continue
Mp3BufferMore ==
    /\ md_pc = "loop"
    /\ md_fn = "mp3_chunks_to_pcm"
    /\ md_i < Len(md_src)
    /\ md_src[md_i + 1] # 0
    /\ BufferTell(Append(md_buffer, md_i + 1)) < min_buffer_size
    /\ md_buffer' = Append(md_buffer, md_i + 1)
    /\ md_i' = md_i + 1
    /\ UNCHANGED <<md_fn, md_src, md_tries, md_acc, md_out, md_pc, md_result>>

\* buffer.write(chunk) and the try block: the decode succeeds, its audio is
\* yielded or accumulated and the buffer is replaced by an empty one; or it
\* raises, and the except clause leaves the buffer as it is
Mp3DecodeDrop(ok, len) ==
    /\ md_pc = "loop"
    /\ md_i < Len(md_src)
    /\ md_src[md_i + 1] # 0
    /\ LET buf == Append(md_buffer, md_i + 1) IN
       /\ md_fn = "mp3_chunks_to_pcm" => BufferTell(buf) >= min_buffer_size
       /\ md_tries' = Append(md_tries, [buf |-> buf, ok |-> ok, final |-> FALSE])
       /\ IF ok
          THEN /\ md_out' = md_out \o Decoded(len).out
               /\ md_acc' = Decoded(len).acc
          ELSE UNCHANGED <<md_out, md_acc>>
       /\ md_buffer' = << >>
    /\ md_i' = md_i + 1
    /\ UNCHANGED <<md_fn, md_src, md_pc, md_result>>
Mp3Decode(ok, len) ==
    /\ md_pc = "loop"
    /\ md_i < Len(md_src)
    /\ md_src[md_i + 1] # 0
    /\ LET buf == Append(md_buffer, md_i + 1) IN
       /\ md_fn = "mp3_chunks_to_pcm" => BufferTell(buf) >= min_buffer_size
       /\ md_tries' = Append(md_tries, [buf |-> buf, ok |-> ok, final |-> FALSE])
       /\ IF ok
          THEN /\ md_out' = md_out \o Decoded(len).out
               /\ md_acc' = Decoded(len).acc
               /\ md_buffer' = << >>
          ELSE /\ md_buffer' = buf
               /\ UNCHANGED <<md_out, md_acc>>
    /\ md_i' = md_i + 1
    /\ UNCHANGED <<md_fn, md_src, md_pc, md_result>>

\* the input is exhausted.  mp3_chunks_to_pcm decodes what the buffer holds,
\* if anything, and prints when that fails; mp3_chunks_to_pcm_buffered
\* yields what is left of accumulated_audio.  Both then end normally.
Mp3End(ok, len) ==
    /\ md_pc = "loop"
    /\ md_i = Len(md_src)
    /\ IF md_fn = "mp3_chunks_to_pcm"
       THEN IF md_buffer # << >>
            THEN /\ md_tries' = Append(md_tries,
                                       [buf |-> md_buffer, ok |-> ok, final |-> TRUE])
                 /\ md_out' = IF ok THEN Append(md_out, len) ELSE md_out
            ELSE UNCHANGED <<md_tries, md_out>>
       ELSE /\ md_out' = IF md_acc.some /\ md_acc.v > 0
                         THEN Append(md_out, md_acc.v) ELSE md_out
            /\ UNCHANGED md_tries
    /\ md_pc' = "done"
    /\ md_result' = "ended"
    /\ UNCHANGED <<md_fn, md_src, md_i, md_buffer, md_acc>>

DecoderIdle ==
    /\ md_fn = "mp3_chunks_to_pcm"
    /\ md_src = << >>
    /\ md_i = 0
    /\ md_buffer = << >>
    /\ md_tries = << >>
    /\ md_acc = [some |-> FALSE, v |-> 0]
    /\ md_out = << >>
    /\ md_pc = "idle"
    /\ md_result = "none"

\* the generator has been called and its first next() has run up to the loop
DecoderStart ==
    /\ md_fn \in Decoders
    /\ md_src \in SeqsUpTo(DecoderChunkSizes, MaxDecoderChunks)
    /\ md_i = 0
    /\ md_buffer = << >>
    /\ md_tries = << >>
    /\ md_acc = [some |-> FALSE, v |-> 0]
    /\ md_out = << >>
    /\ md_pc = "loop"
    /\ md_result = "none"

(***************************************************************************)
(* Specifications                                                          *)
(***************************************************************************)
InitVoice == VoiceStart /\ SpeakIdle /\ FxIdle /\ StreamIdle /\ ConcIdle /\ FallbackIdle /\ CollectIdle /\ ProsodyIdle /\ OverridesIdle /\ ChatIdle /\ SecretsIdle /\ ChainIdle /\ DecoderIdle

NextVoice ==
    \/ \E vk \in VoiceKeys : GetVoice(vk) /\ UNCHANGED <<speakVars, fxVars, streamVars, concVars, fallbackVars, collectVars, prosodyVars, overrideVars, chatVars, secretVars, chainVars, decoderVars>>
    \/ \E vk \in VoiceKeys : GetVoiceRaise(vk) /\ UNCHANGED <<speakVars, fxVars, streamVars, concVars, fallbackVars, collectVars, prosodyVars, overrideVars, chatVars, secretVars, chainVars, decoderVars>>

SpecVoice == InitVoice /\ [][NextVoice]_vars

InitSpeak == SpeakStart /\ VoiceStart /\ FxIdle /\ StreamIdle /\ ConcIdle /\ FallbackIdle /\ CollectIdle /\ ProsodyIdle /\ OverridesIdle /\ ChatIdle /\ SecretsIdle /\ ChainIdle /\ DecoderIdle

NextSpeak ==
    \/ Speak /\ UNCHANGED <<voiceVars, fxVars, streamVars, concVars, fallbackVars, collectVars, prosodyVars, overrideVars, chatVars, secretVars, chainVars, decoderVars>>
    \/ TryOk /\ UNCHANGED <<voiceVars, fxVars, streamVars, concVars, fallbackVars, collectVars, prosodyVars, overrideVars, chatVars, secretVars, chainVars, decoderVars>>
    \/ TryRaise /\ UNCHANGED <<voiceVars, fxVars, streamVars, concVars, fallbackVars, collectVars, prosodyVars, overrideVars, chatVars, secretVars, chainVars, decoderVars>>
    \/ Except /\ UNCHANGED <<voiceVars, fxVars, streamVars, concVars, fallbackVars, collectVars, prosodyVars, overrideVars, chatVars, secretVars, chainVars, decoderVars>>
    \/ Return /\ UNCHANGED <<voiceVars, fxVars, streamVars, concVars, fallbackVars, collectVars, prosodyVars, overrideVars, chatVars, secretVars, chainVars, decoderVars>>

SpecSpeak == InitSpeak /\ [][NextSpeak]_vars

InitFx == FxStart /\ VoiceStart /\ SpeakIdle /\ StreamIdle /\ ConcIdle /\ FallbackIdle /\ CollectIdle /\ ProsodyIdle /\ OverridesIdle /\ ChatIdle /\ SecretsIdle /\ ChainIdle /\ DecoderIdle

NextFx ==
    \/ CallPcmToFloat /\ UNCHANGED <<voiceVars, speakVars, streamVars, concVars, fallbackVars, collectVars, prosodyVars, overrideVars, chatVars, secretVars, chainVars, decoderVars>>
    \/ CallRoundTrip /\ UNCHANGED <<voiceVars, speakVars, streamVars, concVars, fallbackVars, collectVars, prosodyVars, overrideVars, chatVars, secretVars, chainVars, decoderVars>>
    \/ CallFloatToPcm /\ UNCHANGED <<voiceVars, speakVars, streamVars, concVars, fallbackVars, collectVars, prosodyVars, overrideVars, chatVars, secretVars, chainVars, decoderVars>>
    \/ CallApplyFx /\ UNCHANGED <<voiceVars, speakVars, streamVars, concVars, fallbackVars, collectVars, prosodyVars, overrideVars, chatVars, secretVars, chainVars, decoderVars>>

SpecFx == InitFx /\ [][NextFx]_vars

InitStream == StreamStart /\ SpeakIdle /\ FxIdle /\ ConcIdle /\ FallbackIdle /\ CollectIdle /\ ProsodyIdle /\ OverridesIdle /\ ChatIdle /\ SecretsIdle /\ ChainIdle /\ DecoderIdle

NextStream ==
    \/ Request /\ UNCHANGED <<speakVars, fxVars, concVars, fallbackVars, collectVars, prosodyVars, overrideVars, chatVars, secretVars, chainVars, decoderVars>>
    \/ Import /\ UNCHANGED <<speakVars, fxVars, concVars, fallbackVars, collectVars, prosodyVars, overrideVars, chatVars, secretVars, chainVars, decoderVars>>
    \/ AcquireVoice /\ UNCHANGED <<speakVars, fxVars, concVars, fallbackVars, collectVars, prosodyVars, overrideVars, chatVars, secretVars, chainVars, decoderVars>>
    \/ AcquireVoiceRaise /\ UNCHANGED <<speakVars, fxVars, concVars, fallbackVars, collectVars, prosodyVars, overrideVars, chatVars, secretVars, chainVars, decoderVars>>
    \/ Respond /\ UNCHANGED <<speakVars, fxVars, concVars, fallbackVars, collectVars, prosodyVars, overrideVars, chatVars, secretVars, chainVars, decoderVars>>
    \/ GenHeader /\ UNCHANGED <<speakVars, fxVars, concVars, fallbackVars, collectVars, prosodyVars, overrideVars, chatVars, secretVars, chainVars, decoderVars>>
    \/ GenBlock /\ UNCHANGED <<speakVars, fxVars, concVars, fallbackVars, collectVars, prosodyVars, overrideVars, chatVars, secretVars, chainVars, decoderVars>>
    \/ GenEnd /\ UNCHANGED <<speakVars, fxVars, concVars, fallbackVars, collectVars, prosodyVars, overrideVars, chatVars, secretVars, chainVars, decoderVars>>
    \/ GenUpstreamRaise /\ UNCHANGED <<speakVars, fxVars, concVars, fallbackVars, collectVars, prosodyVars, overrideVars, chatVars, secretVars, chainVars, decoderVars>>
    \/ GenClose /\ UNCHANGED <<speakVars, fxVars, concVars, fallbackVars, collectVars, prosodyVars, overrideVars, chatVars, secretVars, chainVars, decoderVars>>

SpecStream == InitStream /\ [][NextStream]_vars

(***************************************************************************)
(* Properties of the voice cache (SpecVoice)                               *)
(***************************************************************************)
\* the get_voice calls that returned a voice, in order
Returned == SelectSeq(calls, LAMBDA c : c.kind # "raise")

\* C1: whenever a get_voice call has returned, at most 2 voices are resident
C1_CacheBound == Len(loaded) <= 2 /\ Cardinality(Keys(loaded)) = Len(loaded)

\* more than 2 distinct voices were requested and the cache is full
C1_Witness ==
    /\ Cardinality({ Returned[i].key : i \in 1..Len(Returned) }) > 2
    /\ Len(loaded) = 2

\* the position of the last successful request for k among the first n (0: none)
LastUse(k, n) ==
    LET at == { i \in 1..n : Returned[i].key = k } IN
    IF at = {} THEN 0 ELSE CHOOSE i \in at : \A j \in at : j <= i

\* the keys a least-recently-used cache of 2 holds after the first n requests
LruResident(n) ==
    LET used == { Returned[i].key : i \in 1..n } IN
    { k \in used :
        Cardinality({ j \in used : LastUse(j, n) > LastUse(k, n) }) < 2 }

RequestedKeys == [i \in 1..Len(Returned) |-> Returned[i].key]

\* C2: eviction is least-recently-used and a hit counts as a use: the cache
\* holds the 2 most recently requested keys, oldest first; a request is a
\* miss exactly when its key is not among them; after A, B, C the cache
\* holds B and C and a following request for A is a miss; after A, B, A, C
\* it holds A and C.
C2_LruEviction ==
    /\ Keys(loaded) = LruResident(Len(Returned))
    /\ \A i, j \in 1..Len(loaded) :
          i < j => LastUse(loaded[i], Len(Returned)) < LastUse(loaded[j], Len(Returned))
    /\ \A i \in 1..Len(Returned) :
          (Returned[i].kind = "miss") <=> (Returned[i].key \notin LruResident(i - 1))
    /\ RequestedKeys = <<"A", "B", "C">> => Keys(loaded) = {"B", "C"}
    /\ RequestedKeys = <<"A", "B", "C", "A">> => Returned[4].kind = "miss"
    /\ RequestedKeys = <<"A", "B", "A", "C">> => Keys(loaded) = {"A", "C"}

\* A, B, A, C were requested: the hit on A saved it and B was evicted
C2_Witness ==
    /\ RequestedKeys = <<"A", "B", "A", "C">>
    /\ Returned[3].kind = "hit"
    /\ loaded = <<"A", "C">>

(***************************************************************************)
(* Properties of the converter and the block processor (SpecFx)            *)
(***************************************************************************)
Applied == fx_out.op = "apply_fx_block"

\* C6 as stated: the block apply_fx_block returns has peak at most 0.98
C6_PeakAtMost098 ==
    Applied => ~RatLess(Rat(98, 100), MaxAbs(fx_out.val))

\* C6 as the code has it: the returned block has peak at most 1.0, and
\* when the chain's output has a peak above 1.0 the returned peak is 0.98
C6_LimiterBound ==
    Applied =>
        /\ ~RatLess(One, MaxAbs(fx_out.val))
        /\ RatLess(One, MaxAbs(fx_out.raw)) => MaxAbs(fx_out.val) = Rat(98, 100)
        /\ ~RatLess(One, MaxAbs(fx_out.raw)) => fx_out.val = fx_out.raw

\* a chain with stages put out a block with a peak above 1.0
C6_Witness ==
    /\ Applied
    /\ fx_out.preset = "robot"
    /\ RatLess(One, MaxAbs(fx_out.raw))
    /\ MaxAbs(fx_out.val) = Rat(98, 100)

UnknownPreset == fx_out.preset \notin DOMAIN PRESET_BUILDERS

C8_RoundTripExact ==
    fx_out.op = "roundtrip" => fx_out.val = fx_in.v

\* C9: float32_to_pcm16 gives for each sample a value in -32767..32767
\* with the sign of the input, 32767 from 1.0 up and -32767 from -1.0 down
C9_ClampNoWrap ==
    fx_out.op = "float32_to_pcm16" =>
        /\ Len(fx_out.val) = Len(fx_in.v)
        /\ \A i \in 1..Len(fx_in.v) :
              LET x == fx_in.v[i]
                  y == fx_out.val[i]
              IN /\ y \in -32767..32767
                 /\ ~RatLess(x, One) => y = 32767
                 /\ ~RatLess(Rat(-1, 1), x) => y = -32767
                 /\ RatLess(Zero, x) => y >= 0
                 /\ RatLess(x, Zero) => y <= 0

\* samples above 1.0 and below -1.0 were converted
C9_Witness ==
    /\ fx_out.op = "float32_to_pcm16"
    /\ fx_in.v = <<Rat(3, 2), Rat(-2, 1)>>
    /\ fx_out.val = <<32767, -32767>>

(***************************************************************************)
(* Properties of the fallback chain (SpecSpeak)                            *)
(***************************************************************************)
DegradationOrder == <<"optimized", "fallback", "simple">>

\* C4: a speak call that starts with the optimized strategy attempts the
\* strategies in the order optimized, fallback, simple, each at most once,
\* a later one only after the one before it raised, and none after one
\* that did not raise
C4_FallbackOrder ==
    sp_start = "optimized" =>
        /\ Len(sp_attempts) <= Len(DegradationOrder)
        /\ \A i \in 1..Len(sp_attempts) :
              /\ sp_attempts[i].type = DegradationOrder[i]
              /\ i < Len(sp_attempts) => sp_attempts[i].outcome = "raise"
        /\ (sp_pc \in {"try", "except"} /\ sp_attempts # << >>) =>
              sp_attempts[Len(sp_attempts)].outcome = "raise"
        /\ sp_pc = "try" => Len(sp_attempts) < Len(DegradationOrder)

\* optimized and fallback raised, simple played, and speak has returned
C4_Witness ==
    /\ sp_start = "optimized"
    /\ sp_pc = "idle"
    /\ Len(sp_attempts) = 3
    /\ sp_attempts[2].player = "FallbackAudioPlayer"
    /\ sp_attempts[3].outcome = "ok"

AllRaised ==
    /\ sp_attempts # << >>
    /\ \A i \in 1..Len(sp_attempts) : sp_attempts[i].outcome = "raise"

\* C5: when every strategy of the order has raised, speak reports a failure
\* to its caller, naming the last strategy attempted, and does not return
\* as if playback had succeeded
C5_FailureReported ==
    (sp_pc = "idle" /\ sp_start = "optimized" /\ AllRaised) =>
        /\ sp_attempts[Len(sp_attempts)].type = "simple"
        /\ sp_result = "raised"

(***************************************************************************)
(* Properties of the Piper stream (SpecStream)                             *)
(***************************************************************************)
\* C3: a request whose synthesis yields N >= 1 blocks without failure
\* emits one 44-byte header first, then N + 1 frames, and at no time a
\* header after the first element
C3_Framing ==
    /\ \A i \in 1..Len(st_emitted) :
          (st_emitted[i].kind = "header") <=> (i = 1)
    /\ (st_pc = "closed" /\ st_pulled >= 1) =>
          /\ Len(st_emitted) = st_pulled + 2
          /\ st_emitted[1] = _wav_header(st_sr)
          /\ st_emitted[1].nbytes = 44
          /\ st_emitted[Len(st_emitted)].nbytes = 2 * Len(st_last_block.v)

\* three blocks were synthesized and the stream is closed
C3_Witness ==
    /\ st_pc = "closed"
    /\ st_pulled = 3
    /\ Len(st_emitted) = 5
    /\ st_req.preset = "robot" /\ st_req.pedalboard

\* C10: when acquiring the voice fails, or pedalboard is not installed,
\* the endpoint answers 503 and has emitted nothing
C10_Unavailable503 ==
    /\ st_fail = "voice" => (st_status = 503 /\ st_emitted = << >>)
    /\ (st_status # 0 /\ ~st_req.pedalboard) =>
          (st_status = 503 /\ st_emitted = << >>)

InitConc == ConcStart /\ VoiceStart /\ SpeakIdle /\ FxIdle /\ StreamIdle /\ FallbackIdle /\ CollectIdle /\ ProsodyIdle /\ OverridesIdle /\ ChatIdle /\ SecretsIdle /\ ChainIdle /\ DecoderIdle

NextConc ==
    \/ (\E t \in Threads, key \in ConcKeys : CallGetVoice(t, key)) /\ UNCHANGED <<voiceVars, speakVars, fxVars, streamVars, fallbackVars, collectVars, prosodyVars, overrideVars, chatVars, secretVars, chainVars, decoderVars>>
    \/ (\E t \in Threads : TestMembership(t)) /\ UNCHANGED <<voiceVars, speakVars, fxVars, streamVars, fallbackVars, collectVars, prosodyVars, overrideVars, chatVars, secretVars, chainVars, decoderVars>>
    \/ (\E t \in Threads : HitMoveToEnd(t)) /\ UNCHANGED <<voiceVars, speakVars, fxVars, streamVars, fallbackVars, collectVars, prosodyVars, overrideVars, chatVars, secretVars, chainVars, decoderVars>>
    \/ (\E t \in Threads : HitReturn(t)) /\ UNCHANGED <<voiceVars, speakVars, fxVars, streamVars, fallbackVars, collectVars, prosodyVars, overrideVars, chatVars, secretVars, chainVars, decoderVars>>
    \/ (\E t \in Threads : LoadVoice(t)) /\ UNCHANGED <<voiceVars, speakVars, fxVars, streamVars, fallbackVars, collectVars, prosodyVars, overrideVars, chatVars, secretVars, chainVars, decoderVars>>
    \/ (\E t \in Threads : Register(t)) /\ UNCHANGED <<voiceVars, speakVars, fxVars, streamVars, fallbackVars, collectVars, prosodyVars, overrideVars, chatVars, secretVars, chainVars, decoderVars>>
    \/ (\E t \in Threads : MissMoveToEnd(t)) /\ UNCHANGED <<voiceVars, speakVars, fxVars, streamVars, fallbackVars, collectVars, prosodyVars, overrideVars, chatVars, secretVars, chainVars, decoderVars>>
    \/ (\E t \in Threads : EvictTest(t)) /\ UNCHANGED <<voiceVars, speakVars, fxVars, streamVars, fallbackVars, collectVars, prosodyVars, overrideVars, chatVars, secretVars, chainVars, decoderVars>>
    \/ (\E t \in Threads : EvictPop(t)) /\ UNCHANGED <<voiceVars, speakVars, fxVars, streamVars, fallbackVars, collectVars, prosodyVars, overrideVars, chatVars, secretVars, chainVars, decoderVars>>
    \/ (\E t \in Threads : MissReturn(t)) /\ UNCHANGED <<voiceVars, speakVars, fxVars, streamVars, fallbackVars, collectVars, prosodyVars, overrideVars, chatVars, secretVars, chainVars, decoderVars>>
    \/ (\E o \in vc_held : RequestEnds(o)) /\ UNCHANGED <<voiceVars, speakVars, fxVars, streamVars, fallbackVars, collectVars, prosodyVars, overrideVars, chatVars, secretVars, chainVars, decoderVars>>

SpecConc == InitConc /\ [][NextConc]_vars

(***************************************************************************)
(* Properties of the voice cache under concurrent requests (SpecConc)      *)
(***************************************************************************)
\* thread t is between finding its key absent and the end of the insertion
Registering(t) == vc_pc[t] \in {"load", "store", "move"}

\* C11: at most one load-and-register is in progress per key at a time; a
\* key that was never evicted is loaded once, and the calls for it all
\* return the same voice
C11_OneLoadPerKey ==
    /\ \A t1, t2 \in Threads :
          (t1 # t2 /\ Registering(t1) /\ Registering(t2)) => vc_key[t1] # vc_key[t2]
    /\ \A k \in ConcKeys \ vc_popped :
          Cardinality({ i \in 1..Len(vc_loads) : vc_loads[i] = k }) <= 1
    /\ \A i, j \in 1..Len(vc_rets) :
          (vc_rets[i].key = vc_rets[j].key /\ vc_rets[i].key \notin vc_popped)
              => vc_rets[i].v = vc_rets[j].v

\* the voices no longer in use: not in the cache, not used by a request
NotReferenced(o) ==
    /\ o \notin ItemValues(vc_loaded)
    /\ o \notin vc_held
    /\ \A t \in Threads : vc_v[t] # o

\* C12: once no get_voice call is running, every voice that was loaded and
\* is not resident has been released
C12_EvictedReleased ==
    (\A t \in Threads : vc_pc[t] = "idle") =>
        \A o \in 1..Len(vc_loads) :
            o \notin ItemValues(vc_loaded) => NotReferenced(o)

InitFallback == FallbackStart /\ VoiceStart /\ SpeakIdle /\ FxIdle /\ StreamIdle /\ ConcIdle /\ CollectIdle /\ ProsodyIdle /\ OverridesIdle /\ ChatIdle /\ SecretsIdle /\ ChainIdle /\ DecoderIdle

NextFallback ==
    \/ (\E empty \in BOOLEAN : FbPlay(empty)) /\ UNCHANGED <<voiceVars, speakVars, fxVars, streamVars, concVars, collectVars, prosodyVars, overrideVars, chatVars, secretVars, chainVars, decoderVars>>
    \/ FbCreateTemp /\ UNCHANGED <<voiceVars, speakVars, fxVars, streamVars, concVars, collectVars, prosodyVars, overrideVars, chatVars, secretVars, chainVars, decoderVars>>
    \/ FbWrite /\ UNCHANGED <<voiceVars, speakVars, fxVars, streamVars, concVars, collectVars, prosodyVars, overrideVars, chatVars, secretVars, chainVars, decoderVars>>
    \/ FbWriteRaise /\ UNCHANGED <<voiceVars, speakVars, fxVars, streamVars, concVars, collectVars, prosodyVars, overrideVars, chatVars, secretVars, chainVars, decoderVars>>
    \/ (\E outcome \in PlayerOutcomes : FbSystemPlayer(outcome)) /\ UNCHANGED <<voiceVars, speakVars, fxVars, streamVars, concVars, collectVars, prosodyVars, overrideVars, chatVars, secretVars, chainVars, decoderVars>>
    \/ (\E interrupted \in BOOLEAN : FbPydubPlay(interrupted)) /\ UNCHANGED <<voiceVars, speakVars, fxVars, streamVars, concVars, collectVars, prosodyVars, overrideVars, chatVars, secretVars, chainVars, decoderVars>>
    \/ (\E oserror \in BOOLEAN : FbUnlink(oserror)) /\ UNCHANGED <<voiceVars, speakVars, fxVars, streamVars, concVars, collectVars, prosodyVars, overrideVars, chatVars, secretVars, chainVars, decoderVars>>

SpecFallback == InitFallback /\ [][NextFallback]_vars

(***************************************************************************)
(* Properties of the temp-file player (SpecFallback)                       *)
(***************************************************************************)
\* play call n has ended
FbEnded(n) == n < fb_plays \/ (n = fb_plays /\ fb_pc = "idle")

\* C13: a temp file that play created no longer exists once play has exited
C13_TempFileRemoved ==
    \A n \in fb_created : FbEnded(n) => n \notin fb_files

InitCollect == CollectStart /\ VoiceStart /\ SpeakIdle /\ FxIdle /\ StreamIdle /\ ConcIdle /\ FallbackIdle /\ ProsodyIdle /\ OverridesIdle /\ ChatIdle /\ SecretsIdle /\ ChainIdle /\ DecoderIdle

NextCollect ==
    \/ CollectChunk /\ UNCHANGED <<voiceVars, speakVars, fxVars, streamVars, concVars, fallbackVars, prosodyVars, overrideVars, chatVars, secretVars, chainVars, decoderVars>>
    \/ CollectPutData /\ UNCHANGED <<voiceVars, speakVars, fxVars, streamVars, concVars, fallbackVars, prosodyVars, overrideVars, chatVars, secretVars, chainVars, decoderVars>>
    \/ CollectEnd /\ UNCHANGED <<voiceVars, speakVars, fxVars, streamVars, concVars, fallbackVars, prosodyVars, overrideVars, chatVars, secretVars, chainVars, decoderVars>>
    \/ CollectRaise /\ UNCHANGED <<voiceVars, speakVars, fxVars, streamVars, concVars, fallbackVars, prosodyVars, overrideVars, chatVars, secretVars, chainVars, decoderVars>>
    \/ CollectPutFinal /\ UNCHANGED <<voiceVars, speakVars, fxVars, streamVars, concVars, fallbackVars, prosodyVars, overrideVars, chatVars, secretVars, chainVars, decoderVars>>
    \/ CollectPutComplete /\ UNCHANGED <<voiceVars, speakVars, fxVars, streamVars, concVars, fallbackVars, prosodyVars, overrideVars, chatVars, secretVars, chainVars, decoderVars>>
    \/ CollectPutError /\ UNCHANGED <<voiceVars, speakVars, fxVars, streamVars, concVars, fallbackVars, prosodyVars, overrideVars, chatVars, secretVars, chainVars, decoderVars>>
    \/ CollectSetEvent /\ UNCHANGED <<voiceVars, speakVars, fxVars, streamVars, concVars, fallbackVars, prosodyVars, overrideVars, chatVars, secretVars, chainVars, decoderVars>>
    \/ PlayTestEvent /\ UNCHANGED <<voiceVars, speakVars, fxVars, streamVars, concVars, fallbackVars, prosodyVars, overrideVars, chatVars, secretVars, chainVars, decoderVars>>
    \/ PlayTestEmpty /\ UNCHANGED <<voiceVars, speakVars, fxVars, streamVars, concVars, fallbackVars, prosodyVars, overrideVars, chatVars, secretVars, chainVars, decoderVars>>
    \/ PlayGet /\ UNCHANGED <<voiceVars, speakVars, fxVars, streamVars, concVars, fallbackVars, prosodyVars, overrideVars, chatVars, secretVars, chainVars, decoderVars>>
    \/ PlayGetTimeout /\ UNCHANGED <<voiceVars, speakVars, fxVars, streamVars, concVars, fallbackVars, prosodyVars, overrideVars, chatVars, secretVars, chainVars, decoderVars>>
    \/ (\E ok \in BOOLEAN : PlayData(ok)) /\ UNCHANGED <<voiceVars, speakVars, fxVars, streamVars, concVars, fallbackVars, prosodyVars, overrideVars, chatVars, secretVars, chainVars, decoderVars>>
    \/ PlayFinally /\ UNCHANGED <<voiceVars, speakVars, fxVars, streamVars, concVars, fallbackVars, prosodyVars, overrideVars, chatVars, secretVars, chainVars, decoderVars>>
    \/ PlayJoin /\ UNCHANGED <<voiceVars, speakVars, fxVars, streamVars, concVars, fallbackVars, prosodyVars, overrideVars, chatVars, secretVars, chainVars, decoderVars>>

SpecCollect == InitCollect /\ [][NextCollect]_vars

(***************************************************************************)
(* Properties of the producer/consumer player (SpecCollect)                *)
(***************************************************************************)
\* the data buffers still in the queue, oldest first
QueuedData ==
    LET d == SelectSeq(sc_queue, LAMBDA m : m.type = "data")
    IN [i \in 1..Len(d) |-> d[i].data]

IsPrefix(a, b) == Len(a) <= Len(b) /\ a = SubSeq(b, 1, Len(a))

\* C14: the buffers written to the device are the first buffers pushed, in
\* the order they were pushed (with the one being decoded and those still
\* queued they are exactly the buffers pushed), and whenever the collector
\* is at a put the queue takes the message at once
C14_FifoNoBlock ==
    /\ IsPrefix(sc_played, sc_pushed)
    /\ sc_exit = "none" =>
          sc_played \o (IF sc_cpc = "play" THEN <<sc_cur>> ELSE << >>) \o QueuedData
              = sc_pushed
    /\ sc_ppc \in {"put_data", "final", "complete", "error"} => NotFull(sc_queue)

\* one buffer has been played while two more wait in the queue and the
\* collector is about to put its completion message behind them
C14_Witness ==
    /\ Len(sc_played) >= 1
    /\ Len(QueuedData) >= 2
    /\ sc_ppc = "complete"

\* the consumer's loop has ended other than by an exception of the data branch
Exited == sc_exit \notin {"none", "raised"}

\* C15: the consumer's loop ends only by taking the collector's 'complete'
\* or 'error' message, never by finding the queue empty, and when it ends
\* every buffer pushed before that message has been played, provided the
\* decoding and playing of a buffer did not raise
C15_ExplicitEnd ==
    Exited =>
        /\ sc_exit \in {"complete", "error"}
        /\ sc_played = sc_pushed

\* the collector pushed at least two buffers and then its completion
\* message; the consumer, ended by that message, has played them all
C15_Witness ==
    /\ sc_exit = "complete"
    /\ Len(sc_played) >= 2
    /\ sc_count = 3
    /\ sc_cpc = "done"

\* the collector's except handler ran: it is at the put of the 'error'
\* message, or the message is queued, or the consumer took it
ProducerRaised ==
    \/ sc_ppc = "error"
    \/ \E i \in 1..Len(sc_queue) : sc_queue[i].type = "error"
    \/ sc_exit = "error"

\* after the input raised: no 'complete' message exists, the 'error' message
\* is the last of the queue, and the chunks collected but not pushed are in
\* no buffer pushed
ErrorMarkerOnly ==
    /\ sc_exit # "complete"
    /\ \A i \in 1..Len(sc_queue) :
          /\ sc_queue[i].type # "complete"
          /\ sc_queue[i].type = "error" => i = Len(sc_queue)
    /\ \A i \in 1..Len(sc_pushed) : \A j \in 1..Len(sc_pushed[i]) :
          \A k \in 1..Len(sc_buf) : sc_pushed[i][j] # sc_buf[k]
    /\ Len(sc_pushed) + Len(sc_buf) <= sc_count

\* once play has ended it ended by returning, the consumer having stopped
\* at the 'error' message with every buffer pushed before it played
ErrorStopsConsumer ==
    sc_ret # "none" =>
        /\ sc_ret = "returned"
        /\ sc_exit = "error"
        /\ sc_played = sc_pushed

\* C30 as stated: when the input raises in the collector thread, an 'error'
\* message is pushed and no 'complete' message, the bytes collected but not
\* pushed are dropped, the consumer stops at the 'error' message after
\* playing the buffers pushed before it, and play returns without raising
C30_ErrorReturnsNormally ==
    ProducerRaised => ErrorMarkerOnly /\ ErrorStopsConsumer

\* C30, amended: the same, provided the consumer's decoding and playing of
\* the buffers pushed before the 'error' message does not raise; an exception
\* of the data branch leaves play
C30_ErrorUnlessPlayRaises ==
    ProducerRaised =>
        /\ ErrorMarkerOnly
        /\ sc_exit # "raised" => ErrorStopsConsumer
        /\ sc_exit = "raised" => sc_ret # "returned"

\* a first buffer was pushed, a further chunk was collected and then the
\* input raised: play returned after playing the one buffer, and the
\* further chunk was never pushed
C30_Witness ==
    /\ sc_ret = "returned"
    /\ sc_exit = "error"
    /\ Len(sc_pushed) = 1
    /\ sc_played = sc_pushed
    /\ sc_buf # << >>
    /\ sc_queue = << >>

InitProsody == ProsodyStart /\ VoiceStart /\ SpeakIdle /\ FxIdle /\ StreamIdle /\ ConcIdle /\ FallbackIdle /\ CollectIdle /\ OverridesIdle /\ ChatIdle /\ SecretsIdle /\ ChainIdle /\ DecoderIdle

NextProsody ==
    \/ ProsodyParse /\ UNCHANGED <<voiceVars, speakVars, fxVars, streamVars, concVars, fallbackVars, collectVars, overrideVars, chatVars, secretVars, chainVars, decoderVars>>
    \/ ProsodyConfig /\ UNCHANGED <<voiceVars, speakVars, fxVars, streamVars, concVars, fallbackVars, collectVars, overrideVars, chatVars, secretVars, chainVars, decoderVars>>

SpecProsody == InitProsody /\ [][NextProsody]_vars

(***************************************************************************)
(* Properties of the prosody fields (SpecProsody)                          *)
(***************************************************************************)
\* the strings of the model that are numbers, and their values
IntOf ==
    [s \in { <<"2">>, <<" ", "2", " ">>, <<"-", "1">> } |->
        IF s = <<"-", "1">> THEN -1 ELSE 2]
FloatOf ==
    [s \in { <<"1", ".", "5">>, <<" ", "2", " ">>, <<"1", ".">> } |->
        IF s = <<"1", ".", "5">> THEN Rat(3, 2)
        ELSE IF s = <<"1", ".">> THEN One ELSE Rat(2, 1)]

ProsodyDefault ==
    [speaker_id |-> NoInt, length_scale |-> Rat(96, 100),
     noise_scale |-> Rat(60, 100), noise_w |-> Rat(8, 10)]

\* the value field f must get: its default when it is absent, blank or not
\* a number, else the number it spells
ProsodyExpected(f) ==
    LET raw == pr_form[f] IN
    IF f = "speaker_id"
    THEN IF raw.some /\ raw.v \in DOMAIN IntOf THEN Some(IntOf[raw.v])
         ELSE ProsodyDefault[f]
    ELSE IF raw.some /\ raw.v \in DOMAIN FloatOf THEN FloatOf[raw.v]
         ELSE ProsodyDefault[f]

\* C17: a prosody field that is absent, blank or not a number takes its own
\* default whatever the other three hold, a field that spells a number
\* takes that number, and the request does not fail for it
C17_ProsodyDefaults ==
    /\ pr_pc # "failed"
    /\ pr_pc \in {"parsed", "configured"} =>
          \A f \in ProsodyFields : pr_values[f] = ProsodyExpected(f)

\* a blank speaker index, a length scale that is not a number, a noise
\* scale of 1.5 and no noise width: None, 0.96, 1.5 and 0.8
C17_Witness ==
    /\ pr_pc = "configured"
    /\ pr_form = [speaker_id |-> Some(<<" ">>), length_scale |-> Some(<<"a", "b">>),
                  noise_scale |-> Some(<<"1", ".", "5">>), noise_w |-> None]
    /\ pr_values = [speaker_id |-> NoInt, length_scale |-> Rat(96, 100),
                    noise_scale |-> Rat(3, 2), noise_w |-> Rat(8, 10)]

InitOverrides == OverridesStart /\ VoiceStart /\ SpeakIdle /\ FxIdle /\ StreamIdle /\ ConcIdle /\ FallbackIdle /\ CollectIdle /\ ProsodyIdle /\ ChatIdle /\ SecretsIdle /\ ChainIdle /\ DecoderIdle

NextOverrides ==
    \/ OverridesLoad /\ UNCHANGED <<voiceVars, speakVars, fxVars, streamVars, concVars, fallbackVars, collectVars, prosodyVars, chatVars, secretVars, chainVars, decoderVars>>
    \/ OverridesBuild /\ UNCHANGED <<voiceVars, speakVars, fxVars, streamVars, concVars, fallbackVars, collectVars, prosodyVars, chatVars, secretVars, chainVars, decoderVars>>

SpecOverrides == InitOverrides /\ [][NextOverrides]_vars

(***************************************************************************)
(* Properties of the effect overrides (SpecOverrides)                      *)
(***************************************************************************)
\* C18: an override map that cannot be parsed, or an override value that
\* is not a number, does not make the request fail: the chain is built, and
\* every argument whose key is not overridden by a number has its default
C18_BadOverrideIgnored ==
    /\ ov_status # 500
    /\ ov_pc # "failed"
    /\ (ov_pc = "built" /\ ov_preset \in DOMAIN PRESET_BUILDERS) =>
          \A i \in 1..Len(ov_board) :
             LET p == PresetParams[ov_preset][i] IN
             (p.key \notin DOMAIN ov_over \/ ov_over[p.key].kind = "null"
                 \/ (ov_over[p.key].kind = "str"
                       /\ ~ParseFloat(Strip(ov_over[p.key].str)).ok))
                => ov_board[i].val = p.default

InitChat == ChatStart /\ VoiceStart /\ SpeakIdle /\ FxIdle /\ StreamIdle /\ ConcIdle /\ FallbackIdle /\ CollectIdle /\ ProsodyIdle /\ OverridesIdle /\ SecretsIdle /\ ChainIdle /\ DecoderIdle

NextChat ==
    \/ (\E u \in UserIds, sp \in {<< >>, <<"S">>} : ChatPost(u, sp)) /\ UNCHANGED <<voiceVars, speakVars, fxVars, streamVars, concVars, fallbackVars, collectVars, prosodyVars, overrideVars, secretVars, chainVars, decoderVars>>
    \/ ChatStream /\ UNCHANGED <<voiceVars, speakVars, fxVars, streamVars, concVars, fallbackVars, collectVars, prosodyVars, overrideVars, secretVars, chainVars, decoderVars>>
    \/ EventGenBegin /\ UNCHANGED <<voiceVars, speakVars, fxVars, streamVars, concVars, fallbackVars, collectVars, prosodyVars, overrideVars, secretVars, chainVars, decoderVars>>
    \/ (\E token \in ChatTokens : EventGenToken(token)) /\ UNCHANGED <<voiceVars, speakVars, fxVars, streamVars, concVars, fallbackVars, collectVars, prosodyVars, overrideVars, secretVars, chainVars, decoderVars>>
    \/ EventGenEnd /\ UNCHANGED <<voiceVars, speakVars, fxVars, streamVars, concVars, fallbackVars, collectVars, prosodyVars, overrideVars, secretVars, chainVars, decoderVars>>
    \/ (\E ending \in {"raised", "cancelled"} : EventGenAbort(ending)) /\ UNCHANGED <<voiceVars, speakVars, fxVars, streamVars, concVars, fallbackVars, collectVars, prosodyVars, overrideVars, secretVars, chainVars, decoderVars>>

SpecChat == InitChat /\ [][NextChat]_vars

(***************************************************************************)
(* Properties of the chat stream (SpecChat)                                *)
(***************************************************************************)
RECURSIVE Concat(_)
\* the tokens of a sequence joined in order
Concat(tokens) ==
    IF tokens = << >> THEN << >> ELSE Head(tokens) \o Concat(Tail(tokens))

\* the rows request n wrote with the given role
Rows(n, role) == { i \in 1..Len(ch_db) : ch_db[i].n = n /\ ch_db[i].role = role }

\* C19: for a request of an existing user, the user's message is in the
\* table before the first token goes out (and before any bot message of the
\* request); a request whose upstream was exhausted has exactly one bot
\* message, holding the tokens sent to the client joined in order; a
\* request that has not got that far has none
C19_ChatPersistence ==
    \A n \in 1..Len(ch_log) :
        /\ (ch_log[n].sent # << >> \/ Rows(n, "bot") # {}) =>
              /\ \E i \in Rows(n, "user") : ch_db[i].content = ChatMessage
              /\ \A i \in Rows(n, "user"), j \in Rows(n, "bot") : i < j
        /\ ch_log[n].ending = "exhausted" =>
              /\ Cardinality(Rows(n, "bot")) = 1
              /\ \A j \in Rows(n, "bot") : ch_db[j].content = Concat(ch_log[n].sent)
        /\ ch_log[n].ending # "exhausted" => Rows(n, "bot") = {}

\* two tokens went out and the upstream ended: the bot message is "abc"
C19_Witness ==
    /\ Len(ch_log) >= 1
    /\ ch_log[1].sent = << <<"a">>, <<"b", "c">> >>
    /\ ch_log[1].ending = "exhausted"
    /\ \E j \in Rows(1, "bot") : ch_db[j].content = <<"a", "b", "c">>

InitSecrets == SecretsStart /\ VoiceStart /\ SpeakIdle /\ FxIdle /\ StreamIdle /\ ConcIdle /\ FallbackIdle /\ CollectIdle /\ ProsodyIdle /\ OverridesIdle /\ ChatIdle /\ ChainIdle /\ DecoderIdle

NextSecrets ==
    \/ (\E name \in SecretNames, value \in SecretValues, nonce \in Nonces : SetSecret(name, value, nonce)) /\ UNCHANGED <<voiceVars, speakVars, fxVars, streamVars, concVars, fallbackVars, collectVars, prosodyVars, overrideVars, chatVars, chainVars, decoderVars>>
    \/ (\E name \in SecretNames : DeleteSecret(name)) /\ UNCHANGED <<voiceVars, speakVars, fxVars, streamVars, concVars, fallbackVars, collectVars, prosodyVars, overrideVars, chatVars, chainVars, decoderVars>>
    \/ (\E name \in SecretNames : GetSecret(name)) /\ UNCHANGED <<voiceVars, speakVars, fxVars, streamVars, concVars, fallbackVars, collectVars, prosodyVars, overrideVars, chatVars, chainVars, decoderVars>>

SpecSecrets == InitSecrets /\ [][NextSecrets]_vars

(***************************************************************************)
(* Properties of the secret store (SpecSecrets)                            *)
(***************************************************************************)
\* what the first n calls leave for a name: the value of the last set_secret
\* if no delete_secret followed it, else None
Stored(name, n) ==
    LET at == { i \in 1..n : se_hist[i].name = name /\ se_hist[i].op # "get" } IN
    IF at = {} THEN None
    ELSE LET last == CHOOSE i \in at : \A j \in at : j <= i IN
         IF se_hist[last].op = "set" THEN Some(se_hist[last].value) ELSE None

\* C20: with the environment fallback disabled, get_secret(name) gives the
\* value of the most recent set_secret for the name if no delete_secret for
\* it followed, else None: for the table as it is now, and for the call of
\* get_secret just made; the table has at most one row per name
C20_SecretStore ==
    /\ ~se_env.allow =>
          /\ \A name \in SecretNames :
                get_secret(se_db, se_env, name) = Stored(name, Len(se_hist))
          /\ (se_hist # << >> /\ se_hist[Len(se_hist)].op = "get") =>
                se_got.result = Stored(se_got.name, Len(se_hist))
    /\ \A name \in SecretNames :
          Cardinality({ i \in 1..Len(se_db) : se_db[i].name = name }) <= 1

\* a value was set, replaced by another, and get_secret returned the second
C20_Witness ==
    /\ ~se_env.allow
    /\ Len(se_hist) = 3
    /\ se_hist[1] = [op |-> "set", name |-> "OPENROUTER_API_KEY", value |-> <<233>>]
    /\ se_hist[2] = [op |-> "set", name |-> "OPENROUTER_API_KEY", value |-> <<107, 49>>]
    /\ se_hist[3].op = "get"
    /\ se_got = [name |-> "OPENROUTER_API_KEY", result |-> Some(<<107, 49>>)]
    /\ Len(se_db) = 1

(***************************************************************************)
(* The tail flush and the upstream failure of the stream (SpecStream)      *)
(***************************************************************************)

\* C21: when the upstream sequence is exhausted after at least one block,
\* exactly one more block is handed to the chain after the real ones: it is
\* all zeros, as long as the last real block, goes to the same board, and
\* its processed result is the last frame emitted before the stream closes
C21_FlushBlock ==
    (st_pc = "closed" /\ st_pulled >= 1) =>
        LET n == Len(st_calls)
            flush == st_calls[n] IN
        /\ n = st_pulled + 1
        /\ \A i \in 1..Len(flush.block) : flush.block[i] = Zero
        /\ Len(flush.block) = Len(st_calls[n - 1].block)
        /\ st_calls[n - 1].block = st_last_block.v
        /\ \A i \in 1..n : st_calls[i].board = st_board
        /\ Len(st_emitted) = n + 1
        /\ st_emitted[n + 1] \in
              { Frame(float32_to_pcm16(apply_fx_block(flush.block, r))) :
                  r \in StreamBoardCall(flush.board, flush.block, st_req.pedalboard) }

\* two blocks of different lengths were synthesized, the last one of two
\* samples, and the stream is closed after the flush
C21_Witness ==
    /\ st_pc = "closed"
    /\ st_pulled = 2
    /\ Len(st_calls) = 3
    /\ Len(st_calls[1].block) = 1
    /\ Len(st_calls[3].block) = 2
    /\ st_req.preset = "robot" /\ st_req.pedalboard

\* C22: when the synthesis sequence raises after k blocks, the stream stays
\* aborted and the output is the header followed by the k frames of those
\* blocks, each a result of the chain for its block, and nothing else: the
\* chain was called k times, so there is no flush frame
C22_TruncatedStream ==
    st_fail = "upstream" =>
        /\ st_pc = "aborted"
        /\ st_status = 200
        /\ Len(st_emitted) = st_pulled + 1
        /\ st_emitted[1] = _wav_header(st_sr)
        /\ Len(st_calls) = st_pulled
        /\ \A i \in 1..st_pulled :
              st_emitted[i + 1] \in
                { Frame(float32_to_pcm16(apply_fx_block(st_calls[i].block, r))) :
                    r \in StreamBoardCall(st_board, st_calls[i].block,
                                          st_req.pedalboard) }

\* the sequence raised after two blocks had been emitted
C22_Witness ==
    /\ st_pc = "aborted"
    /\ st_fail = "upstream"
    /\ st_pulled = 2
    /\ Len(st_emitted) = 3
    /\ st_emitted[3].kind = "frame"

InitChain == ChainStart /\ VoiceStart /\ SpeakIdle /\ FxIdle /\ StreamIdle /\ ConcIdle /\ FallbackIdle /\ CollectIdle /\ ProsodyIdle /\ OverridesIdle /\ ChatIdle /\ SecretsIdle /\ DecoderIdle

NextChain ==
    \/ (\E r \in ChainRequests, preset \in StreamPresets : ChainRequest(r, preset)) /\ UNCHANGED <<voiceVars, speakVars, fxVars, streamVars, concVars, fallbackVars, collectVars, prosodyVars, overrideVars, chatVars, secretVars, decoderVars>>
    \/ (\E r \in ChainRequests : ChainBuild(r)) /\ UNCHANGED <<voiceVars, speakVars, fxVars, streamVars, concVars, fallbackVars, collectVars, prosodyVars, overrideVars, chatVars, secretVars, decoderVars>>
    \/ (\E r \in ChainRequests, block \in ChainBlocks : ChainBlock(r, block)) /\ UNCHANGED <<voiceVars, speakVars, fxVars, streamVars, concVars, fallbackVars, collectVars, prosodyVars, overrideVars, chatVars, secretVars, decoderVars>>
    \/ (\E r \in ChainRequests : ChainEnd(r)) /\ UNCHANGED <<voiceVars, speakVars, fxVars, streamVars, concVars, fallbackVars, collectVars, prosodyVars, overrideVars, chatVars, secretVars, decoderVars>>

SpecChain == InitChain /\ [][NextChain]_vars

(***************************************************************************)
(* Properties of the chains of concurrent requests (SpecChain)             *)
(***************************************************************************)
\* the chain objects request r has built
BuiltBy(r) == { id \in 1..Len(cb_heap) : cb_heap[id].owner = r }

\* a request that has built its chain has built one, and every call it
\* makes goes to that object, which no other request built or calls
ChainRequestScoped ==
    \A r \in ChainRequests :
        /\ cb_pc[r] \in {"stream", "done"} => BuiltBy(r) = {cb_board[r]}
        /\ \A i \in 1..Len(cb_calls[r]) : cb_calls[r][i].board = cb_board[r]
        /\ \A q \in ChainRequests \ {r} :
              \A i \in 1..Len(cb_calls[q]) : cb_calls[q][i].board \notin BuiltBy(r)

\* the state a block is processed with is the state the block before left
ChainContinuity ==
    \A r \in ChainRequests :
        \A i \in 1..(Len(cb_calls[r]) - 1) :
            cb_calls[r][i + 1].pre = cb_calls[r][i].post

\* C23: each request builds exactly one chain and applies that instance to
\* every block in order, the flush block included; the chain's continuity
\* state after block i is its state before block i + 1; no chain instance
\* is used by two requests
C23_ChainContinuity == ChainRequestScoped /\ ChainContinuity

(***************************************************************************)
(* Properties of the fallback chain, continued (SpecSpeak)                 *)
(***************************************************************************)
\* C24: a speak call that starts with the producer/consumer strategy and
\* whose play fails goes on to the external-process fallback, and after
\* that to the simple player, as a call that starts with optimized does
C24_StreamCollectDegrades ==
    (sp_start = "stream_collect" /\ sp_pc = "idle" /\ sp_attempts # << >>
        /\ sp_attempts[1].outcome = "raise") =>
        /\ Len(sp_attempts) >= 2
        /\ sp_attempts[2].type = "fallback"
        /\ sp_attempts[2].outcome = "raise" =>
              (Len(sp_attempts) >= 3 /\ sp_attempts[3].type = "simple")

\* every sequence handed to a strategy is one nothing was taken from, and
\* no sequence is handed to two strategies
FreshSequence ==
    \A i \in 1..Len(sp_attempts) :
        sp_attempts[i].seq # 0 =>
            /\ sp_attempts[i].at = 0
            /\ \A j \in 1..(i - 1) : sp_attempts[j].seq # sp_attempts[i].seq

\* a retry that could not get the input again is the last attempt
NoRetryWithoutInput ==
    \A i \in 2..Len(sp_attempts) :
        sp_attempts[i].seq = 0 => i = Len(sp_attempts)

\* C25: on every retry the next strategy plays the input from its start,
\* never a sequence a failed strategy has taken chunks from, and when the
\* input cannot be had again the coordinator does not retry
C25_RetryFromStart == FreshSequence /\ NoRetryWithoutInput

\* C29: player_type changes only from optimized to fallback and from
\* fallback to simple; a speak call starts from the player_type the calls
\* before it left, and every attempt uses the player_type of that moment
C29_NeverReset ==
    [][/\ player_type' # player_type =>
             \E i \in 1..(Len(DegradationOrder) - 1) :
                /\ player_type = DegradationOrder[i]
                /\ player_type' = DegradationOrder[i + 1]
       /\ (sp_pc = "idle" /\ sp_pc' = "try") => sp_start' = player_type
       /\ Len(sp_attempts') > Len(sp_attempts) =>
             sp_attempts'[Len(sp_attempts')].type = player_type]_vars

\* a manager created with optimized fell back in its first call; its second
\* call starts from fallback and has made its first attempt with it
C29_Witness ==
    /\ sp_init = "optimized"
    /\ sp_calls = 1
    /\ sp_start = "fallback"
    /\ player_type = "fallback"
    /\ Len(sp_attempts) = 1
    /\ sp_attempts[1].type = "fallback"

InitDecoder == DecoderStart /\ VoiceStart /\ SpeakIdle /\ FxIdle /\ StreamIdle /\ ConcIdle /\ FallbackIdle /\ CollectIdle /\ ProsodyIdle /\ OverridesIdle /\ ChatIdle /\ SecretsIdle /\ ChainIdle

NextDecoder ==
    \/ Mp3SkipEmpty /\ UNCHANGED <<voiceVars, speakVars, fxVars, streamVars, concVars, fallbackVars, collectVars, prosodyVars, overrideVars, chatVars, secretVars, chainVars>>
    \/ Mp3BufferMore /\ UNCHANGED <<voiceVars, speakVars, fxVars, streamVars, concVars, fallbackVars, collectVars, prosodyVars, overrideVars, chatVars, secretVars, chainVars>>
    \/ (\E ok \in BOOLEAN, len \in AudioLens : Mp3Decode(ok, len)) /\ UNCHANGED <<voiceVars, speakVars, fxVars, streamVars, concVars, fallbackVars, collectVars, prosodyVars, overrideVars, chatVars, secretVars, chainVars>>
    \/ (\E ok \in BOOLEAN, len \in AudioLens : Mp3End(ok, len)) /\ UNCHANGED <<voiceVars, speakVars, fxVars, streamVars, concVars, fallbackVars, collectVars, prosodyVars, overrideVars, chatVars, secretVars, chainVars>>

SpecDecoder == InitDecoder /\ [][NextDecoder]_vars

(***************************************************************************)
(* Properties of the incremental decoders (SpecDecoder)                    *)
(***************************************************************************)
\* the non-empty chunks taken from the input so far, in order
Written == SelectSeq([i \in 1..md_i |-> i], LAMBDA i : md_src[i] # 0)

\* the chunks of the buffers that decoded, in order
RECURSIVE DecodedChunks(_)
DecodedChunks(tries) ==
    IF tries = << >> THEN << >>
    ELSE (IF Head(tries).ok THEN Head(tries).buf ELSE << >>)
            \o DecodedChunks(Tail(tries))

\* C26: a decode that fails does not end the generator with an error; the
\* bytes it was tried on stay in the buffer, and the next attempt in the
\* loop is made on them with a further chunk appended; a decode that
\* succeeds empties the buffer, so the buffers that decoded, followed by the
\* buffer, are the chunks written, each once
C26_RetryKeepsBytes ==
    /\ md_result # "raised"
    /\ md_pc = "loop" => DecodedChunks(md_tries) \o md_buffer = Written
    /\ \A k \in 1..Len(md_tries) :
          /\ (~md_tries[k].ok /\ md_pc = "loop" /\ k = Len(md_tries)) =>
                md_buffer = md_tries[k].buf
          /\ (k < Len(md_tries) /\ ~md_tries[k].ok /\ ~md_tries[k + 1].final) =>
                /\ IsPrefix(md_tries[k].buf, md_tries[k + 1].buf)
                /\ Len(md_tries[k + 1].buf) > Len(md_tries[k].buf)
    /\ \A j, k \in 1..Len(md_tries) :
          (j < k /\ md_tries[j].ok /\ md_tries[k].ok) =>
              \A c \in 1..Len(md_tries[j].buf) :
                  \A d \in 1..Len(md_tries[k].buf) :
                      md_tries[j].buf[c] # md_tries[k].buf[d]

\* a decode failed, the next one succeeded on that buffer and one more
\* chunk, and the chunk after these decoded on its own
C26_Witness ==
    /\ Len(md_tries) = 3
    /\ ~md_tries[1].ok
    /\ md_tries[2].ok /\ Len(md_tries[2].buf) = Len(md_tries[1].buf) + 1
    /\ md_tries[3].ok /\ ~md_tries[3].final
    /\ md_buffer = << >>

\* the chunks written that no successful decode covered
Undecoded ==
    SelectSeq(Written, LAMBDA i :
        \A k \in 1..Len(md_tries) :
            md_tries[k].ok => \A c \in 1..Len(md_tries[k].buf) : md_tries[k].buf[c] # i)

\* C27: a decoder whose input ended while bytes that never decoded remain
\* in the buffer ends with an error, not normally
C27_TrailingBytesFatal ==
    (md_pc = "done" /\ Undecoded # << >>) => md_result = "raised"

(***************************************************************************)
(* Properties of the voice cache under concurrent requests, continued      *)
(* (SpecConc)                                                              *)
(***************************************************************************)
\* C28: no get_voice call ends with a KeyError of the cache, and every call
\* returns a voice that was loaded for the key it asked for
C28_NoCacheFailure ==
    \A i \in 1..Len(vc_rets) :
        /\ vc_rets[i].v # 0
        /\ vc_loads[vc_rets[i].v] = vc_rets[i].key

=============================================================================
